---- MODULE Spec2Model ----
(***************************************************************************)
(* Availability and table-assignment engine of the restaurant booking      *)
(* system: calendar rules (checkRestaurantOpen), the overlap query and     *)
(* capacity guard (findAvailableTables), the table solver                  *)
(* (findBestTableCombination) and the booking handlers of                  *)
(* booking.controller.js.                                                  *)
(*                                                                         *)
(* Time is counted in ticks; a calendar day is DayLen ticks long.  A date  *)
(* is a day index d, its midnight is the timestamp d * DayLen, and an      *)
(* "HH:MM" time of day is a tick in 0 .. DayLen-1 (the schema only admits  *)
(* zero-padded HH:MM strings, whose string order is their numeric order).  *)
(***************************************************************************)
EXTENDS Integers, Sequences, FiniteSets, TLC

\* ---------------------------------------------------------------- bounds
DayLen == 3
MaxDur == 2
MaxCands == 4
MaxCap == 4

Dates == {0, 1}
Times == 0 .. (DayLen - 1)
Durations == 1 .. MaxDur

\* moment(`${dateStr} ${time}`): the timestamp of a time of day on a date.
Ts(date, tod) == date * DayLen + tod

\* moment(x).startOf('day'), as a day index.
StartOfDay(ts) == ts \div DayLen

\* moment(date).day(): the model's dates all fall in one week.
DayOfWeek(date) == date % 7

VARIABLES
  restaurant,   \* the venue-settings document (Restaurant.findOne())
  tables,       \* the table catalog, in catalog order
  bookings,     \* the set of persisted booking documents
  nextId,       \* the next booking _id
  resp,         \* the last handler's request summary and response
  call,         \* the last direct call of a utility function and its result, or
                \* the request just handled
  reqs,         \* in-flight createBooking requests (interleaved handlers)
  ops,          \* the number of requests handled so far
  availabilities \* the Availability collection: one snapshot per (date, tableId)

vars == <<restaurant, tables, bookings, nextId, resp, call, reqs, ops, availabilities>>

\* ------------------------------------------------------- calendar rules
NoHours == [has |-> FALSE, open |-> 0, close |-> 0]

\* restaurant.closedDates.some(closed => sameDay(closed.date, date))
IsClosedDate(r, date) == \E i \in 1 .. Len(r.closedDates) : r.closedDates[i] = date

\* Array.prototype.find: the first element satisfying the test, if any.
\* Given the positions that satisfy the test: the first one, 0 when there is none.
FindIndex(hits) ==
  IF hits = {} THEN 0 ELSE CHOOSE i \in hits : \A j \in hits : i <= j

\* restaurant.specialEvents.find(event => sameDay(event.date, date))
FindSpecialEvent(r, date) ==
  FindIndex({i \in 1 .. Len(r.specialEvents) : r.specialEvents[i].date = date})

\* restaurant.openingHours.find(h => h.day === dayOfWeek)
FindOpeningHours(r, dow) ==
  FindIndex({i \in 1 .. Len(r.openingHours) : r.openingHours[i].day = dow})

\* The dayHours of checkRestaurantOpen: the first special event of the date when
\* it carries customOpeningHours, else the weekly entry of the weekday.
\* found = FALSE stands for dayHours === undefined.
DayHours(r, date) ==
  LET ev == FindSpecialEvent(r, date)
      wk == FindOpeningHours(r, DayOfWeek(date))
  IN IF ev # 0 /\ r.specialEvents[ev].hours.has
       THEN [found |-> TRUE, open |-> r.specialEvents[ev].hours.open,
             close |-> r.specialEvents[ev].hours.close, isClosed |-> FALSE]
       ELSE IF wk # 0
              THEN [found |-> TRUE, open |-> r.openingHours[wk].open,
                    close |-> r.openingHours[wk].close,
                    isClosed |-> r.openingHours[wk].isClosed]
              ELSE [found |-> FALSE, open |-> 0, close |-> 0, isClosed |-> FALSE]

\* closeDateTime without the overnight adjustment.
CloseDateTimeSameDay(date, h) == Ts(date, h.close)

\* closeDateTime: the close boundary, moved to the next day when the close time
\* of day is earlier than the open time of day.
CloseDateTime(date, h) ==
  IF h.close < h.open THEN Ts(date, h.close) + DayLen ELSE Ts(date, h.close)

OpenDateTime(date, h) == Ts(date, h.open)

\* The window test of checkRestaurantOpen: outside iff the start is before the
\* open boundary or the end is after the close boundary.
OutsideHours(date, h, startTime, endTime) ==
  startTime < OpenDateTime(date, h) \/ endTime > CloseDateTime(date, h)

\* checkRestaurantOpen with the special event consulted before the closed dates.
checkRestaurantOpenEventFirst(r, date, startTime, endTime) ==
  LET h == DayHours(r, date)
      ev == FindSpecialEvent(r, date)
  IN IF ev # 0 /\ r.specialEvents[ev].hours.has
       THEN IF OutsideHours(date, h, startTime, endTime)
              THEN [isOpen |-> FALSE, reason |-> "outside opening hours"]
              ELSE [isOpen |-> TRUE, reason |-> ""]
       ELSE IF IsClosedDate(r, date)
              THEN [isOpen |-> FALSE, reason |-> "closed on this date"]
              ELSE IF ~h.found \/ h.isClosed
                     THEN [isOpen |-> FALSE, reason |-> "closed on this day"]
                     ELSE IF OutsideHours(date, h, startTime, endTime)
                            THEN [isOpen |-> FALSE, reason |-> "outside opening hours"]
                            ELSE [isOpen |-> TRUE, reason |-> ""]

checkRestaurantOpen(r, date, startTime, endTime) ==
  LET h == DayHours(r, date)
  IN IF IsClosedDate(r, date)
       THEN [isOpen |-> FALSE, reason |-> "closed on this date"]
       ELSE IF ~h.found \/ h.isClosed
              THEN [isOpen |-> FALSE, reason |-> "closed on this day"]
              ELSE IF OutsideHours(date, h, startTime, endTime)
                     THEN [isOpen |-> FALSE, reason |-> "outside opening hours"]
                     ELSE [isOpen |-> TRUE, reason |-> ""]

\* ------------------------------------------------------- table solver
\* A combination is a tuple of positions i < j (< k) of the candidate list.
ComboCapacity(cands, c) ==
  IF Len(c) = 2 THEN cands[c[1]].capacity + cands[c[2]].capacity
  ELSE cands[c[1]].capacity + cands[c[2]].capacity + cands[c[3]].capacity

ComboTables(cands, c) == [n \in 1 .. Len(c) |-> cands[c[n]]]

\* The order in which the nested for-loops visit the combinations.
ComboBefore(a, b) ==
  \/ a[1] < b[1]
  \/ a[1] = b[1] /\ a[2] < b[2]
  \/ Len(a) = 3 /\ a[1] = b[1] /\ a[2] = b[2] /\ a[3] < b[3]

Pairs(n) == {c \in (1 .. n) \X (1 .. n) : c[1] < c[2]}

\* The triple loops with the outer index started one position late.
TriplesSkipFirst(n) ==
  {c \in (2 .. n) \X (2 .. n) \X (2 .. n) : c[1] < c[2] /\ c[2] < c[3]}

Triples(n) == {c \in (1 .. n) \X (1 .. n) \X (1 .. n) : c[1] < c[2] /\ c[2] < c[3]}

\* The loops with <= in place of < : a later combination of equal capacity
\* replaces the best one.
RECURSIVE ScanCombosLast(_, _, _, _, _)
ScanCombosLast(cands, partySize, todo, best, bestCapacity) ==
  IF todo = {} THEN best
  ELSE LET c == CHOOSE x \in todo : \A y \in todo \ {x} : ComboBefore(x, y)
           capacity == ComboCapacity(cands, c)
       IN IF capacity >= partySize /\ (bestCapacity = 0 \/ capacity <= bestCapacity)
            THEN ScanCombosLast(cands, partySize, todo \ {c}, ComboTables(cands, c),
                                capacity)
            ELSE ScanCombosLast(cands, partySize, todo \ {c}, best, bestCapacity)

\* One pass of the loops over the combinations `todo`, carrying bestCombination
\* and bestCapacity: a combination replaces the best one when it seats the party
\* and is strictly smaller than the best so far.
RECURSIVE ScanCombos(_, _, _, _, _)
ScanCombos(cands, partySize, todo, best, bestCapacity) ==
  IF todo = {} THEN best
  ELSE LET c == CHOOSE x \in todo : \A y \in todo \ {x} : ComboBefore(x, y)
           capacity == ComboCapacity(cands, c)
       IN IF capacity >= partySize /\ (bestCapacity = 0 \/ capacity < bestCapacity)
            THEN ScanCombos(cands, partySize, todo \ {c}, ComboTables(cands, c), capacity)
            ELSE ScanCombos(cands, partySize, todo \ {c}, best, bestCapacity)

\* suitableTables[0] without the sort: the first suitable table in list order.
FirstSuitable(cands, partySize) ==
  FindIndex({i \in 1 .. Len(cands) : cands[i].capacity >= partySize})

\* suitableTables.sort((a, b) => a.capacity - b.capacity)[0]: the sort is stable,
\* so the first table in list order among those of least capacity.
SmallestSuitable(cands, partySize) ==
  LET ok == {i \in 1 .. Len(cands) : cands[i].capacity >= partySize}
  IN CHOOSE i \in ok : \A j \in ok :
       \/ cands[i].capacity < cands[j].capacity
       \/ cands[i].capacity = cands[j].capacity /\ i <= j

\* The exact-fit lookup with >= in place of ===.
PerfectTableLoose(cands, partySize) ==
  FindIndex({i \in 1 .. Len(cands) : cands[i].capacity >= partySize})

\* availableTables.find(table => table.capacity === partySize)
PerfectTable(cands, partySize) ==
  FindIndex({i \in 1 .. Len(cands) : cands[i].capacity = partySize})

findBestTableCombination(cands, partySize) ==
  LET perfect == PerfectTable(cands, partySize)
      n == Len(cands)
  IN IF perfect # 0 THEN <<cands[perfect]>>
     ELSE IF \E i \in 1 .. n : cands[i].capacity >= partySize
       THEN <<cands[SmallestSuitable(cands, partySize)]>>
       ELSE LET pair == ScanCombos(cands, partySize, Pairs(n), <<>>, 0)
            IN IF Len(pair) = 0
                 THEN ScanCombos(cands, partySize, Triples(n), <<>>, 0)
                 ELSE pair

\* ------------------------------------------------- overlap index, capacity guard
ActiveStatuses == {"pending", "confirmed", "seated"}
Statuses == {"pending", "confirmed", "seated", "completed", "cancelled", "no-show"}

\* Booking.find({date, status: {$in: [...]}, 'timeSlot.start': {$lt: endTime},
\*               'timeSlot.end': {$gt: startTime}})
\* The query with $lte / $gte: windows that only touch count as overlapping.
OverlapQueryInclusive(bks, date, startTime, endTime) ==
  {b \in bks : /\ b.date = date
               /\ b.status \in ActiveStatuses
               /\ b.start <= endTime
               /\ b.end >= startTime}

\* The query with 'seated' missing from the status list.
OverlapQueryNoSeated(bks, date, startTime, endTime) ==
  {b \in bks : /\ b.date = date
               /\ b.status \in {"pending", "confirmed"}
               /\ b.start < endTime
               /\ b.end > startTime}

OverlapQuery(bks, date, startTime, endTime) ==
  {b \in bks : /\ b.date = date
               /\ b.status \in ActiveStatuses
               /\ b.start < endTime
               /\ b.end > startTime}

\* The booked tables read from the stored snapshots instead of the bookings.
BookedTableIdsFromCache(overlapping) ==
  {d.tableId : d \in {x \in availabilities : x.blockedSlots # <<>>}}

BookedTableIds(overlapping) == UNION {b.tables : b \in overlapping}

RECURSIVE SumPartySize(_)
SumPartySize(bs) ==
  IF bs = {} THEN 0
  ELSE LET b == CHOOSE x \in bs : TRUE
       IN b.partySize + SumPartySize(bs \ {b})

\* The reduce over overlappingBookings: a booking counts when it starts at or
\* before the request's end and ends at or after the request's start.
CurrentBookedPeople(overlapping, startTime, endTime) ==
  SumPartySize({b \in overlapping : b.start <= endTime /\ b.end >= startTime})

\* .sort((a, b) => a.capacity - b.capacity): a stable sort.
RECURSIVE SortByCapacity(_)
SortByCapacity(s) ==
  IF Len(s) = 0 THEN <<>>
  ELSE LET i == CHOOSE i \in 1 .. Len(s) : \A j \in 1 .. Len(s) :
                  \/ s[i].capacity < s[j].capacity
                  \/ s[i].capacity = s[j].capacity /\ i <= j
           rest == [k \in 1 .. (Len(s) - 1) |-> IF k < i THEN s[k] ELSE s[k + 1]]
       IN <<s[i]>> \o SortByCapacity(rest)

\* JavaScript numbers are IEEE-754 doubles: 53 significant bits, results rounded
\* to nearest, ties to even.  A positive double is kept as its significant bits
\* (most significant first) and a scale: it is the bits read as an integer,
\* divided by 2^scale.

\* 2^n and 2^n mod b, by repeated squaring.
RECURSIVE Pow2(_)
Pow2(n) ==
  IF n = 0 THEN 1
  ELSE IF n % 2 = 0 THEN Pow2(n \div 2) * Pow2(n \div 2)
  ELSE 2 * Pow2(n - 1)

RECURSIVE Pow2Mod(_, _)
Pow2Mod(n, b) ==
  IF n = 0 THEN 1 % b
  ELSE IF n % 2 = 0 THEN (Pow2Mod(n \div 2, b) * Pow2Mod(n \div 2, b)) % b
  ELSE (2 * Pow2Mod(n - 1, b)) % b

\* What remains of a / b (0 < a < b < 2^15) after i binary digits past the point.
FracRemainder(a, b, i) == (a * Pow2Mod(i, b)) % b

\* The first n binary digits after the point of a / b.
FracDigits(a, b, n) == [i \in 1 .. n |-> (2 * FracRemainder(a, b, i - 1)) \div b]

\* The position after the point of the first 1 digit of a / b.
RECURSIVE LeadPosition(_, _)
LeadPosition(r, b) == IF 2 * r >= b THEN 1 ELSE 1 + LeadPosition(2 * r, b)

\* bits + 1
Increment(bits) ==
  LET zeros == {i \in 1 .. Len(bits) : bits[i] = 0}
  IN IF zeros = {} THEN <<1>> \o [i \in 1 .. Len(bits) |-> 0]
     ELSE LET last == CHOOSE i \in zeros : \A j \in zeros : j <= i
          IN [i \in 1 .. Len(bits) |->
                IF i < last THEN bits[i] ELSE IF i = last THEN 1 ELSE 0]

\* Round to nearest, ties to even: kept are the bits that stay, guard the first
\* bit dropped, sticky whether anything nonzero lies below the guard.
RoundHalfEven(kept, guard, sticky) ==
  IF guard = 1 /\ (sticky \/ kept[Len(kept)] = 1) THEN Increment(kept) ELSE kept

\* A natural number below 2^w as w bits, most significant first.
BitsOf(n, w) == [i \in 1 .. w |-> (n \div Pow2(w - i)) % 2]

RECURSIVE FromBits(_)
FromBits(bits) ==
  IF Len(bits) = 0 THEN 0
  ELSE 2 * FromBits(SubSeq(bits, 1, Len(bits) - 1)) + bits[Len(bits)]

\* Without its leading zeros.
StripZeros(bits) ==
  LET ones == {i \in 1 .. Len(bits) : bits[i] = 1}
  IN IF ones = {} THEN <<>>
     ELSE SubSeq(bits, CHOOSE i \in ones : \A j \in ones : i <= j, Len(bits))

\* bits * m, exactly, for 0 < m < 2^16 and at most 56 bits: the bits are cut
\* into four limbs of 14 bits, multiplied limb by limb from the low end.
LimbBits == 14

MulBits(bits, m) ==
  LET padded == [i \in 1 .. (4 * LimbBits - Len(bits)) |-> 0] \o bits
      limb(j) == FromBits(SubSeq(padded, (j - 1) * LimbBits + 1, j * LimbBits))
      base == Pow2(LimbBits)
      v4 == limb(4) * m
      v3 == limb(3) * m + v4 \div base
      v2 == limb(2) * m + v3 \div base
      v1 == limb(1) * m + v2 \div base
  IN StripZeros(BitsOf(v1 \div base, 16) \o BitsOf(v1 % base, LimbBits)
                  \o BitsOf(v2 % base, LimbBits) \o BitsOf(v3 % base, LimbBits)
                  \o BitsOf(v4 % base, LimbBits))

SignificantBits == 53

\* The double a / b for integers 0 < a < b.
DoubleQuotient(a, b) ==
  LET k == LeadPosition(a, b)
      d == FracDigits(a, b, k + SignificantBits)
  IN [bits |-> RoundHalfEven(SubSeq(d, k, k + SignificantBits - 1),
                             d[k + SignificantBits],
                             FracRemainder(a, b, k + SignificantBits) # 0),
      scale |-> k + SignificantBits - 1]

\* The double m * x for an integer 0 < m < 2^16 and a double x.
DoubleTimes(m, x) ==
  LET p == MulBits(x.bits, m)
      drop == Len(p) - SignificantBits
  IN IF drop <= 0 THEN [bits |-> p, scale |-> x.scale]
     ELSE [bits |-> RoundHalfEven(SubSeq(p, 1, SignificantBits), p[SignificantBits + 1],
                                  \E i \in (SignificantBits + 2) .. Len(p) : p[i] = 1),
           scale |-> x.scale - drop]

\* Math.floor of a double below 2^31.
DoubleFloor(x) ==
  IF x.scale >= Len(x.bits) THEN 0
  ELSE FromBits(SubSeq(x.bits, 1, Len(x.bits) - x.scale))

\* Math.floor(maxCapacity * (maxCapacityThreshold / 100)) for integer settings,
\* the threshold within the 1 .. 100 the schema admits.
FloorOfShare(maxCapacity, threshold) ==
  IF threshold = 100 THEN maxCapacity
  ELSE DoubleFloor(DoubleTimes(maxCapacity, DoubleQuotient(threshold, 100)))

\* The settings the specifications use; the limit is computed once for each.
CapacityValues == {6, 10, 50}
ThresholdValues == {58, 90}

MaxAllowedTable ==
  {<<c[1], c[2], FloorOfShare(c[1], c[2])>> : c \in CapacityValues \X ThresholdValues}

\* Math.floor(maxCapacity * (maxCapacityThreshold / 100))
MaxAllowed(r) ==
  (CHOOSE e \in MaxAllowedTable :
     e[1] = r.maxCapacity /\ e[2] = r.bookingRules.maxCapacityThreshold)[3]

Unavailable(reason) == [available |-> FALSE, reason |-> reason, tables |-> <<>>]

\* availableTables of findAvailableTables: the active tables that are reservable
\* and not held by an overlapping booking, in ascending capacity.
AvailableTables(tbls, bks, date, startTime, endTime) ==
  LET IsActive(t) == t.isActive
      booked == BookedTableIds(OverlapQuery(bks, date, startTime, endTime))
      IsFree(t) == t.id \notin booked /\ t.isReservable
  IN SortByCapacity(SelectSeq(SelectSeq(tbls, IsActive), IsFree))

findAvailableTables(tbls, r, bks, date, startTime, endTime, partySize, isStaff) ==
  LET IsActive(t) == t.isActive
      active == SelectSeq(tbls, IsActive)
      overlapping == OverlapQuery(bks, date, startTime, endTime)
      availableTables == AvailableTables(tbls, bks, date, startTime, endTime)
      result == findBestTableCombination(availableTables, partySize)
      totalPeopleIfBooked ==
        CurrentBookedPeople(overlapping, startTime, endTime) + partySize
  IN IF Len(active) = 0 THEN Unavailable("No tables configured in the system")
     ELSE IF ~isStaff /\ partySize > r.bookingRules.maxPartySize
       THEN Unavailable("Online booking is limited")
     ELSE IF Len(availableTables) = 0
       THEN Unavailable("No tables available for the requested time")
     ELSE IF Len(result) = 0
       THEN Unavailable("No suitable table configuration available for the party size")
     ELSE IF ~isStaff /\ totalPeopleIfBooked > MaxAllowed(r)
       THEN Unavailable("This booking would exceed the restaurant capacity")
     ELSE [available |-> TRUE, reason |-> "", tables |-> result]

TableIds(ts) == {ts[i].id : i \in 1 .. Len(ts)}

\* -------------------------------------------------------------- booking handlers
\* The handlers that change a booking end with updateAvailabilityCache, which
\* rewrites the snapshots of a date; no handler below reads the snapshots.
\* req.user: the authenticated caller; anonymous stands for req.user undefined.
Staff == [role |-> "staff", id |-> 1]
Customer == [role |-> "customer", id |-> 2]
Anonymous == [role |-> "anonymous", id |-> 0]

\* isStaff taken to be "the caller is logged in".
IsStaffAnyUser(user) == user.role # "anonymous"

\* req.user && ['admin', 'manager', 'staff'].includes(req.user.role)
IsStaff(user) == user.role = "staff"

\* duration || 120
DefaultDuration == 2
NA == 0 - 1

DurationOr(duration, default) == IF duration = NA THEN default ELSE duration

Ok(code) == [ok |-> TRUE, code |-> code, reason |-> ""]
Fail(code, reason) == [ok |-> FALSE, code |-> code, reason |-> reason]

\* The validation of createBooking without its own party-size test.
CreateValidationNoSizeTest(r, tbls, bks, partySize, date, startTime, endTime, tableIds) ==
  LET status == checkRestaurantOpen(r, date, startTime, endTime)
      availability ==
        findAvailableTables(tbls, r, bks, date, startTime, endTime, partySize, FALSE)
  IN IF ~status.isOpen THEN Fail(400, status.reason)
     ELSE IF ~availability.available THEN Fail(400, availability.reason)
     ELSE IF tableIds # {} /\ ~(tableIds \subseteq TableIds(availability.tables))
       THEN Fail(400, "One or more selected tables are not available")
     ELSE Ok(201)

\* createBooking, the validation of a request that is not staff-originated:
\* opening hours, online party size, availability, and the requested tables
\* being among the tables the availability check returned.
CreateValidation(r, tbls, bks, partySize, date, startTime, endTime, tableIds) ==
  LET status == checkRestaurantOpen(r, date, startTime, endTime)
      availability ==
        findAvailableTables(tbls, r, bks, date, startTime, endTime, partySize, FALSE)
  IN IF ~status.isOpen THEN Fail(400, status.reason)
     ELSE IF partySize > r.bookingRules.maxPartySize
       THEN Fail(400, "Online booking is limited")
     ELSE IF ~availability.available THEN Fail(400, availability.reason)
     ELSE IF tableIds # {} /\ ~(tableIds \subseteq TableIds(availability.tables))
       THEN Fail(400, "One or more selected tables are not available")
     ELSE Ok(201)

\* createBooking, the choice of assignedTableIds: the requested tables, or the
\* tables of a fresh findAvailableTables.  When that call is unavailable its
\* tables field is undefined and the handler throws into its catch (500).
CreateAssignment(r, tbls, bks, partySize, date, startTime, endTime, tableIds, isStaff) ==
  LET availability ==
        findAvailableTables(tbls, r, bks, date, startTime, endTime, partySize, isStaff)
  IN IF tableIds # {} THEN [ok |-> TRUE, tables |-> tableIds]
     ELSE IF availability.available
       THEN [ok |-> TRUE, tables |-> TableIds(availability.tables)]
       ELSE [ok |-> FALSE, tables |-> {}]

\* bookingData with status and source left to the schema defaults.
BookingDataDefaults(id, user, partySize, date, startTime, endTime, duration, assigned) ==
  [id |-> id, userId |-> user.id, partySize |-> partySize, date |-> date,
   start |-> startTime, end |-> endTime, duration |-> duration, tables |-> assigned,
   status |-> "pending", source |-> "online"]

\* bookingData of createBooking
BookingData(id, user, partySize, date, startTime, endTime, duration, assigned) ==
  [id |-> id, userId |-> user.id, partySize |-> partySize, date |-> date,
   start |-> startTime, end |-> endTime, duration |-> duration, tables |-> assigned,
   status |-> IF IsStaff(user) THEN "confirmed" ELSE "pending",
   source |-> IF IsStaff(user) THEN "manual" ELSE "online"]

\* Whether a requested table is held by an active booking overlapping the window.
RequestConflicts(bks, startTime, endTime, tableIds) ==
  \E b \in bks : /\ b.status \in ActiveStatuses
                 /\ b.tables \cap tableIds # {}
                 /\ b.start < endTime /\ b.end > startTime

\* ------------------------------------------------------ availability cache
\* Default hours of the cache when the weekday has no openingHours entry
\* ('09:00' and '22:00', as ticks of the day).
DefaultOpenTime == 1
DefaultCloseTime == 2

\* openTime and closeTime of updateAvailabilityCache.
CacheHours(r, date) ==
  LET ev == FindSpecialEvent(r, date)
      wk == FindOpeningHours(r, DayOfWeek(date))
  IN IF ev # 0 /\ r.specialEvents[ev].hours.has
       THEN [open |-> r.specialEvents[ev].hours.open,
             close |-> r.specialEvents[ev].hours.close]
       ELSE IF wk # 0
              THEN [open |-> r.openingHours[wk].open, close |-> r.openingHours[wk].close]
              ELSE [open |-> DefaultOpenTime, close |-> DefaultCloseTime]

\* isClosed || (daySettings && daySettings.isClosed)
CacheClosed(r, date) ==
  LET wk == FindOpeningHours(r, DayOfWeek(date))
  IN IsClosedDate(r, date) \/ (wk # 0 /\ r.openingHours[wk].isClosed)

\* The loop without its break: a slot is added whenever it starts before
\* endDateTime.
RECURSIVE GenerateSlotsKeepPartial(_, _, _)
GenerateSlotsKeepPartial(currentSlot, endDateTime, slotDuration) ==
  IF currentSlot < endDateTime
    THEN <<[start |-> currentSlot, end |-> currentSlot + slotDuration]>>
           \o GenerateSlotsKeepPartial(currentSlot + slotDuration, endDateTime,
                                       slotDuration)
  ELSE <<>>

\* The while loop that fills availableSlots: whole slots from currentSlot on,
\* none reaching past endDateTime.
RECURSIVE GenerateSlots(_, _, _)
GenerateSlots(currentSlot, endDateTime, slotDuration) ==
  IF currentSlot < endDateTime /\ currentSlot + slotDuration <= endDateTime
    THEN <<[start |-> currentSlot, end |-> currentSlot + slotDuration]>>
           \o GenerateSlots(currentSlot + slotDuration, endDateTime, slotDuration)
  ELSE <<>>

\* Booking.find({date, status in pending/confirmed/seated}) of the cache.
CacheBookings(bks, date) == {b \in bks : b.date = date /\ b.status \in ActiveStatuses}

\* The documents of a query result as a list, in creation order.
RECURSIVE InIdOrder(_)
InIdOrder(bks) ==
  IF bks = {} THEN <<>>
  ELSE LET b == CHOOSE x \in bks : \A y \in bks : x.id <= y.id
       IN <<b>> \o InIdOrder(bks \ {b})

\* tableBookings.map(...): one blocked slot per booking holding the table.
BlockedSlots(bks, date, tableId) ==
  LET tableBookings == InIdOrder({b \in CacheBookings(bks, date) : tableId \in b.tables})
  IN [i \in 1 .. Len(tableBookings) |->
        [start |-> tableBookings[i].start, end |-> tableBookings[i].end,
         reason |-> "booking", bookingId |-> tableBookings[i].id]]

\* The blocked slot of a closed day: from startOf('day') to endOf('day'), the
\* last instant of the date.
ClosedSlot(date) ==
  [start |-> Ts(date, 0), end |-> Ts(date, DayLen) - 1, reason |-> "closed",
   bookingId |-> 0]

\* The update document updateAvailabilityCache writes for one table.
Snapshot(r, bks, date, tableId) ==
  LET h == CacheHours(r, date)
  IN IF CacheClosed(r, date)
       THEN [date |-> date, tableId |-> tableId, availableSlots |-> <<>>,
             blockedSlots |-> <<ClosedSlot(date)>>]
     ELSE [date |-> date, tableId |-> tableId,
           availableSlots |-> GenerateSlots(OpenDateTime(date, h), CloseDateTime(date, h),
                                            r.bookingRules.timeSlotDuration),
           blockedSlots |-> BlockedSlots(bks, date, tableId)]

\* The document the filter {date, tableId} finds, an empty one when none exists.
FindSnapshot(coll, date, tableId) ==
  IF \E d \in coll : d.date = date /\ d.tableId = tableId
    THEN CHOOSE d \in coll : d.date = date /\ d.tableId = tableId
  ELSE [date |-> date, tableId |-> tableId, availableSlots |-> <<>>,
        blockedSlots |-> <<>>]

\* An update that pushes the blocked slots onto the stored list.
ApplyUpdatePush(found, update) ==
  [update EXCEPT !.blockedSlots = found.blockedSlots \o @]

\* findOneAndUpdate with a plain update document: the listed fields are set.
ApplyUpdate(found, update) ==
  [found EXCEPT !.date = update.date, !.tableId = update.tableId,
                !.availableSlots = update.availableSlots,
                !.blockedSlots = update.blockedSlots]

\* updateAvailabilityCache(date): one upsert per active table, keyed by
\* (date, tableId).
updateAvailabilityCache(coll, r, tbls, bks, date) ==
  LET active == TableIds(SelectSeq(tbls, LAMBDA t : t.isActive))
  IN {d \in coll : ~(d.date = date /\ d.tableId \in active)}
       \cup {ApplyUpdate(FindSnapshot(coll, date, id), Snapshot(r, bks, date, id)) :
               id \in active}

NoCall == [fn |-> "none"]

BookingRules == [maxPartySize |-> 4, maxCapacityThreshold |-> 90, timeSlotDuration |-> 1]

\* The venue of the handler specifications: day 0 runs overnight (open at the
\* last tick, close at the first tick of the next day), day 1 opens at midnight.
Venue ==
  [openingHours |-> <<[day |-> 0, open |-> DayLen - 1, close |-> 1, isClosed |-> FALSE],
                      [day |-> 1, open |-> 0, close |-> DayLen - 1, isClosed |-> FALSE]>>,
   closedDates |-> <<>>,
   specialEvents |-> <<>>,
   maxCapacity |-> 6,
   bookingRules |-> BookingRules]

Catalog ==
  <<[id |-> 1, capacity |-> 2, isActive |-> TRUE, isReservable |-> TRUE],
    [id |-> 2, capacity |-> 4, isActive |-> TRUE, isReservable |-> TRUE]>>

MaxBookings == 2
MaxOps == 3
PartySizes == {2, 4}
Callers == {Staff, Customer}
TableIdSets == SUBSET TableIds(Catalog)

Init ==
  /\ restaurant = Venue
  /\ tables = Catalog
  /\ bookings = {}
  /\ nextId = 1
  /\ resp = [op |-> "none"]
  /\ call = NoCall
  /\ reqs = <<>>
  /\ ops = 0
  /\ availabilities = {}

\* POST /api/bookings, handled without interleaving: what the whole of
\* createBooking does to the bookings and the response for one request.
CreateBookingStep(user, partySize, date, time, duration, tableIds) ==
  LET startTime == Ts(date, time)
      endTime == startTime + DurationOr(duration, DefaultDuration)
      v == CreateValidation(restaurant, tables, bookings, partySize, date,
                            startTime, endTime, tableIds)
      a == CreateAssignment(restaurant, tables, bookings, partySize, date,
                            startTime, endTime, tableIds, IsStaff(user))
      summary == [op |-> "createBooking", isStaff |-> IsStaff(user),
                  tableIds |-> tableIds,
                  conflict |-> RequestConflicts(bookings, startTime, endTime, tableIds)]
  IN /\ nextId <= MaxBookings
     /\ IF ~IsStaff(user) /\ ~v.ok
          THEN /\ resp' = summary @@ [code |-> v.code, reason |-> v.reason, id |-> 0]
               /\ UNCHANGED <<bookings, nextId, availabilities>>
        ELSE IF ~a.ok
          THEN /\ resp' = summary @@ [code |-> 500, reason |-> "Server error", id |-> 0]
               /\ UNCHANGED <<bookings, nextId, availabilities>>
        ELSE /\ bookings' = bookings \cup
                   {BookingData(nextId, user, partySize, date, startTime, endTime,
                                DurationOr(duration, DefaultDuration), a.tables)}
             /\ availabilities' =
                  updateAvailabilityCache(availabilities, restaurant, tables,
                                          bookings', date)
             /\ nextId' = nextId + 1
             /\ resp' = summary @@ [code |-> 201, reason |-> "", id |-> nextId]
     /\ UNCHANGED <<restaurant, tables, reqs>>

CreateBookingAs(user, partySize, date, time, duration, tableIds) ==
  /\ CreateBookingStep(user, partySize, date, time, duration, tableIds)
  /\ UNCHANGED call

CreateBooking ==
  /\ ops < MaxOps
  /\ ops' = ops + 1
  /\ \E user \in Callers, partySize \in PartySizes, date \in Dates, time \in Times,
        duration \in Durations \cup {NA}, tableIds \in TableIdSets :
       CreateBookingAs(user, partySize, date, time, duration, tableIds)

\* req.body of PUT /api/bookings/:id; an absent field is NA (status: "").
MaxBodyFields == 1
BodyFieldCount(b) ==
  (IF b.date # NA THEN 1 ELSE 0) + (IF b.time # NA THEN 1 ELSE 0)
  + (IF b.duration # NA THEN 1 ELSE 0) + (IF b.partySize # NA THEN 1 ELSE 0)
  + (IF b.status # "" THEN 1 ELSE 0) + (IF b.hasTableIds THEN 1 ELSE 0)

UpdateBodies ==
  {b \in [date : Dates \cup {NA}, time : Times \cup {NA}, duration : Durations \cup {NA},
          partySize : PartySizes \cup {NA}, status : Statuses \cup {""},
          hasTableIds : BOOLEAN] :
     BodyFieldCount(b) \in 1 .. MaxBodyFields}

\* customers may only touch their own bookings
NotOwner(user, booking) ==
  user.role = "customer" /\ (booking.userId = 0 \/ booking.userId # user.id)

\* The window updateBooking computes from the body and the stored booking.
UpdateDate(b, body) == IF body.date # NA THEN body.date ELSE b.date
UpdateStart(b, body) ==
  Ts(UpdateDate(b, body), IF body.time # NA THEN body.time ELSE b.start % DayLen)
UpdateEnd(b, body) ==
  UpdateStart(b, body) + DurationOr(body.duration, b.end - b.start)

\* The availability re-check of updateBooking, made for customers only.
UpdateValidation(r, tbls, bks, b, body) ==
  LET status == checkRestaurantOpen(r, UpdateDate(b, body), UpdateStart(b, body),
                                    UpdateEnd(b, body))
      partySize == IF body.partySize # NA THEN body.partySize ELSE b.partySize
      availability ==
        findAvailableTables(tbls, r, bks, UpdateDate(b, body), UpdateStart(b, body),
                            UpdateEnd(b, body), partySize, FALSE)
  IN IF ~status.isOpen THEN Fail(400, status.reason)
     ELSE IF ~availability.available THEN Fail(400, availability.reason)
     ELSE Ok(200)

\* updateData applied by findByIdAndUpdate
UpdateData(b, body) ==
  LET moved == body.date # NA \/ body.time # NA
  IN [b EXCEPT
        !.partySize = IF body.partySize # NA THEN body.partySize ELSE @,
        !.duration = IF body.duration # NA THEN body.duration ELSE @,
        !.status = IF body.status # "" THEN body.status ELSE @,
        !.start = IF moved THEN UpdateStart(b, body) ELSE @,
        !.end = IF moved THEN UpdateEnd(b, body) ELSE @,
        !.date = IF body.date # NA THEN body.date ELSE @]

\* The cache refreshes that end updateBooking: the date of the updated booking,
\* then the date of the body when the body carries one.
UpdateBookingCache(coll, r, tbls, bks, updated, body) ==
  LET first == updateAvailabilityCache(coll, r, tbls, bks, updated.date)
  IN IF body.date # NA THEN updateAvailabilityCache(first, r, tbls, bks, body.date)
     ELSE first

\* PUT /api/bookings/:id
UpdateBookingStep(user, b, body) ==
  LET checked == (body.date # NA \/ body.time # NA \/ body.hasTableIds)
                   /\ user.role = "customer"
      v == UpdateValidation(restaurant, tables, bookings, b, body)
      summary == [op |-> "updateBooking", id |-> b.id, from |-> b.status]
  IN /\ IF NotOwner(user, b)
          THEN /\ resp' = summary @@ [code |-> 403, reason |-> "Not authorized"]
               /\ UNCHANGED <<bookings, availabilities>>
        ELSE IF checked /\ ~v.ok
          THEN /\ resp' = summary @@ [code |-> v.code, reason |-> v.reason]
               /\ UNCHANGED <<bookings, availabilities>>
        ELSE /\ bookings' = (bookings \ {b}) \cup {UpdateData(b, body)}
             /\ availabilities' =
                  UpdateBookingCache(availabilities, restaurant, tables, bookings',
                                     UpdateData(b, body), body)
             /\ resp' = summary @@ [code |-> 200, reason |-> ""]
     /\ UNCHANGED <<restaurant, tables, nextId, reqs>>

UpdateBooking ==
  /\ ops < MaxOps
  /\ ops' = ops + 1
  /\ \E user \in {Staff, Customer}, b \in bookings, body \in UpdateBodies :
       UpdateBookingStep(user, b, body)
  /\ UNCHANGED call

\* PUT /api/bookings/:id/status
StatusUpdate(b, status) == [b EXCEPT !.status = status]

\* updateBookingStatus without its cache refresh.
StatusCacheNever(coll, r, tbls, bks, date, status) == coll

\* The cache refresh that ends updateBookingStatus: only for cancelled, no-show.
StatusCache(coll, r, tbls, bks, date, status) ==
  IF status \in {"cancelled", "no-show"}
    THEN updateAvailabilityCache(coll, r, tbls, bks, date)
  ELSE coll

UpdateBookingStatus ==
  /\ ops < MaxOps
  /\ \E id \in 1 .. MaxBookings, status \in Statuses :
       LET found == {b \in bookings : b.id = id}
       IN IF found = {}
            THEN /\ resp' = [op |-> "updateBookingStatus", id |-> id, from |-> "",
                             to |-> status, code |-> 404, reason |-> "Booking not found"]
                 /\ UNCHANGED <<bookings, availabilities>>
          ELSE LET b == CHOOSE x \in found : TRUE
               IN /\ bookings' = (bookings \ {b}) \cup {StatusUpdate(b, status)}
                  /\ availabilities' =
                       StatusCache(availabilities, restaurant, tables, bookings',
                                   b.date, status)
                  /\ resp' = [op |-> "updateBookingStatus", id |-> id,
                              from |-> b.status, to |-> status, code |-> 200,
                              reason |-> ""]
  /\ ops' = ops + 1
  /\ UNCHANGED <<restaurant, tables, nextId, call, reqs>>

\* DELETE /api/bookings/:id
DeleteBooking ==
  /\ ops < MaxOps
  /\ \E user \in {Staff, Customer}, b \in bookings :
       IF NotOwner(user, b)
         THEN /\ resp' = [op |-> "deleteBooking", id |-> b.id, code |-> 403,
                          reason |-> "Not authorized"]
              /\ UNCHANGED <<bookings, availabilities>>
       ELSE /\ bookings' = bookings \ {b}
            /\ availabilities' =
                 updateAvailabilityCache(availabilities, restaurant, tables,
                                         bookings', b.date)
            /\ resp' = [op |-> "deleteBooking", id |-> b.id, code |-> 200,
                        reason |-> ""]
  /\ ops' = ops + 1
  /\ UNCHANGED <<restaurant, tables, nextId, call, reqs>>

Next == CreateBooking \/ UpdateBooking \/ UpdateBookingStatus \/ DeleteBooking

Spec == Init /\ [][Next]_vars

\* ---------------------------------- online bookings only (no staff, no tableIds)
CreateBookingOnline ==
  /\ UNCHANGED ops
  /\ \E user \in {Customer, Anonymous}, partySize \in PartySizes, date \in Dates,
        time \in Times, duration \in Durations \cup {NA} :
       CreateBookingAs(user, partySize, date, time, duration, {})

SpecOnline == Init /\ [][CreateBookingOnline]_vars

\* ------------------------------------- createBooking handlers that interleave
\* Each request runs createBooking one await at a time: the validation (its
\* findAvailableTables reads the bookings), the assignment (a second
\* findAvailableTables), then Booking.create.  Another request may run between
\* any two of these steps.
Requests ==
  [user : {Customer, Anonymous}, partySize : PartySizes, date : Dates, time : Times,
   duration : {NA}, tableIds : {{}}, pc : {"start"}, assigned : {{}}, code : {0},
   reason : {""}]

ReqStart(q) == Ts(q.date, q.time)
ReqEnd(q) == ReqStart(q) + DurationOr(q.duration, DefaultDuration)

InitConc ==
  /\ restaurant = Venue
  /\ tables = Catalog
  /\ bookings = {}
  /\ nextId = 1
  /\ resp = [op |-> "none"]
  /\ call = NoCall
  /\ reqs \in [1 .. 2 -> Requests]
  /\ ops = 0
  /\ availabilities = {}

\* lines 102-156 of createBooking
Validate(i) ==
  LET q == reqs[i]
      v == CreateValidation(restaurant, tables, bookings, q.partySize, q.date,
                            ReqStart(q), ReqEnd(q), q.tableIds)
  IN /\ q.pc = "start"
     /\ ~IsStaff(q.user)
     /\ reqs' = [reqs EXCEPT ![i] =
                   IF v.ok THEN [q EXCEPT !.pc = "validated"]
                   ELSE [q EXCEPT !.pc = "done", !.code = v.code, !.reason = v.reason]]
     /\ UNCHANGED <<restaurant, tables, bookings, nextId, resp, call, ops, availabilities>>

\* lines 158-184 of createBooking
Assign(i) ==
  LET q == reqs[i]
      a == CreateAssignment(restaurant, tables, bookings, q.partySize, q.date,
                            ReqStart(q), ReqEnd(q), q.tableIds, IsStaff(q.user))
  IN /\ q.pc = "validated" \/ (q.pc = "start" /\ IsStaff(q.user))
     /\ reqs' = [reqs EXCEPT ![i] =
                   IF a.ok THEN [q EXCEPT !.pc = "assigned", !.assigned = a.tables]
                   ELSE [q EXCEPT !.pc = "done", !.code = 500,
                                  !.reason = "Server error"]]
     /\ UNCHANGED <<restaurant, tables, bookings, nextId, resp, call, ops, availabilities>>

\* lines 186-220 of createBooking: Booking.create, then the cache refresh
Persist(i) ==
  LET q == reqs[i]
  IN /\ q.pc = "assigned"
     /\ bookings' = bookings \cup
          {BookingData(nextId, q.user, q.partySize, q.date, ReqStart(q), ReqEnd(q),
                       DurationOr(q.duration, DefaultDuration), q.assigned)}
     /\ availabilities' =
          updateAvailabilityCache(availabilities, restaurant, tables, bookings',
                                  q.date)
     /\ nextId' = nextId + 1
     /\ reqs' = [reqs EXCEPT ![i] = [q EXCEPT !.pc = "done", !.code = 201]]
     /\ UNCHANGED <<restaurant, tables, resp, call, ops>>

NextConc == \E i \in 1 .. 2 : Validate(i) \/ Assign(i) \/ Persist(i)

SpecConc == InitConc /\ [][NextConc]_vars

\* ------------------------------------------- utility functions, called directly
SeqsUpTo(S, n) == UNION {[1 .. k -> S] : k \in 0 .. n}

\* A set of dates as a list, in ascending order.
RECURSIVE SetToSeq(_)
SetToSeq(S) ==
  IF S = {} THEN <<>>
  ELSE LET m == CHOOSE x \in S : \A y \in S : x <= y
       IN <<m>> \o SetToSeq(S \ {m})

Weekdays == {DayOfWeek(d) : d \in Dates}

HoursEntries == [day : Weekdays, open : Times, close : Times, isClosed : {FALSE}]
                  \cup [day : Weekdays, open : {0}, close : {DayLen - 1}, isClosed : {TRUE}]

\* Weekly schedules: at most one entry per weekday, in weekday order.
WeeklySchedules ==
  {s \in SeqsUpTo(HoursEntries, Cardinality(Weekdays)) :
     \A i \in 1 .. Len(s) : \A j \in 1 .. Len(s) : i < j => s[i].day < s[j].day}

EventHours == {NoHours,
               [has |-> TRUE, open |-> 0, close |-> 1],
               [has |-> TRUE, open |-> DayLen - 1, close |-> 0]}

SpecialEventLists == SeqsUpTo([date : Dates, hours : EventHours], 2)

Settings ==
  [openingHours : WeeklySchedules,
   closedDates : {SetToSeq(S) : S \in SUBSET Dates},
   specialEvents : SpecialEventLists,
   maxCapacity : {10},
   bookingRules : {BookingRules}]

InitOpen ==
  /\ restaurant \in Settings
  /\ tables = <<>>
  /\ bookings = {}
  /\ nextId = 1
  /\ resp = [op |-> "none"]
  /\ call = NoCall
  /\ reqs = <<>>
  /\ ops = 0
  /\ availabilities = {}

CallCheckRestaurantOpen ==
  /\ call = NoCall
  /\ \E date \in Dates, start \in 0 .. (Ts(1, DayLen - 1)), dur \in Durations :
       /\ call' = [fn |-> "checkRestaurantOpen", date |-> date,
                   startTime |-> start, endTime |-> start + dur,
                   result |-> checkRestaurantOpen(restaurant, date, start, start + dur)]
       /\ UNCHANGED <<restaurant, tables, bookings, nextId, resp, reqs, ops, availabilities>>

SpecOpen == InitOpen /\ [][CallCheckRestaurantOpen]_vars

\* findBestTableCombination is exported and takes any list of tables; the lists
\* findAvailableTables passes (sorted by capacity) are among these.
CandidateLists ==
  {[i \in 1 .. Len(caps) |-> [id |-> i, capacity |-> caps[i]]] :
     caps \in SeqsUpTo(1 .. MaxCap, MaxCands)}

InitSolver ==
  /\ restaurant = [openingHours |-> <<>>, closedDates |-> <<>>, specialEvents |-> <<>>,
                   maxCapacity |-> 10, bookingRules |-> BookingRules]
  /\ tables = <<>>
  /\ bookings = {}
  /\ nextId = 1
  /\ resp = [op |-> "none"]
  /\ call = NoCall
  /\ reqs = <<>>
  /\ ops = 0
  /\ availabilities = {}

CallFindBestTableCombination ==
  /\ call = NoCall
  /\ \E cands \in CandidateLists, partySize \in 1 .. (3 * MaxCap + 1) :
       /\ call' = [fn |-> "findBestTableCombination", cands |-> cands,
                   partySize |-> partySize,
                   result |-> findBestTableCombination(cands, partySize)]
       /\ UNCHANGED <<restaurant, tables, bookings, nextId, resp, reqs, ops, availabilities>>

SpecSolver == InitSolver /\ [][CallFindBestTableCombination]_vars

\* ------------------------------------------ findAvailableTables, called directly
\* Venue settings for the capacity guard.
AvailSettings ==
  {[openingHours |-> <<>>, closedDates |-> <<>>, specialEvents |-> <<>>,
    maxCapacity |-> c[1],
    bookingRules |-> [maxPartySize |-> 4, maxCapacityThreshold |-> c[2],
                      timeSlotDuration |-> 1]] :
     c \in {<<10, 90>>, <<50, 58>>}}

\* Catalogs of three tables, not in capacity order; the second table may be
\* inactive or not reservable.
AvailCatalogs ==
  {<<[id |-> 1, capacity |-> 2, isActive |-> TRUE, isReservable |-> TRUE],
     [id |-> 2, capacity |-> 4, isActive |-> f[1], isReservable |-> f[2]],
     [id |-> 3, capacity |-> 2, isActive |-> TRUE, isReservable |-> TRUE]>> :
     f \in BOOLEAN \X BOOLEAN}

\* A stored booking document; its date is the day of its start.
StoredBooking(id, partySize, date, time, duration, tableIds, status) ==
  [id |-> id, userId |-> 0, partySize |-> partySize, date |-> date,
   start |-> Ts(date, time), end |-> Ts(date, time) + duration, duration |-> duration,
   tables |-> tableIds, status |-> status, source |-> "manual"]

FirstBookings ==
  {StoredBooking(1, p, d, t, n, ts, st) :
     p \in {2, 25}, d \in Dates, t \in Times, n \in Durations,
     ts \in {{1}, {2}, {1, 3}}, st \in {"pending", "seated", "cancelled"}}

SecondBookings == {StoredBooking(2, 2, 0, t, 1, {2}, "confirmed") : t \in Times}

BookingStores ==
  {{}} \cup {{b} : b \in FirstBookings}
       \cup {{b, c} : b \in FirstBookings, c \in SecondBookings}

InitAvail ==
  /\ restaurant \in AvailSettings
  /\ tables \in AvailCatalogs
  /\ bookings \in BookingStores
  /\ nextId = 3
  /\ resp = [op |-> "none"]
  /\ call = NoCall
  /\ reqs = <<>>
  /\ ops = 0
  /\ availabilities = {}

CallFindAvailableTables ==
  /\ call = NoCall
  /\ \E date \in Dates, time \in Times, dur \in Durations, partySize \in {2, 4, 6},
        isStaff \in BOOLEAN :
       LET startTime == Ts(date, time)
           endTime == startTime + dur
           overlapping == OverlapQuery(bookings, date, startTime, endTime)
       IN call' = [fn |-> "findAvailableTables", date |-> date,
                   startTime |-> startTime, endTime |-> endTime,
                   partySize |-> partySize, isStaff |-> isStaff,
                   bookedTableIds |-> BookedTableIds(overlapping),
                   currentBookedPeople |->
                     CurrentBookedPeople(overlapping, startTime, endTime),
                   result |-> findAvailableTables(tables, restaurant, bookings, date,
                                                  startTime, endTime, partySize, isStaff)]
  /\ UNCHANGED <<restaurant, tables, bookings, nextId, resp, reqs, ops, availabilities>>

SpecAvail == InitAvail /\ [][CallFindAvailableTables]_vars

\* ------------------------------ one request against a venue with closures
\* Day 0 is open from the first to the last tick, day 1 is closed weekly; date 0
\* may also be a closed date.
RulesVenues ==
  {[openingHours |-> <<[day |-> 0, open |-> 0, close |-> DayLen - 1, isClosed |-> FALSE],
                       [day |-> 1, open |-> 0, close |-> DayLen - 1, isClosed |-> TRUE]>>,
    closedDates |-> cd,
    specialEvents |-> <<>>,
    maxCapacity |-> 6,
    bookingRules |-> BookingRules] : cd \in {<<>>, <<0>>}}

\* The catalog, and the same tables all taken out of service.
RulesCatalogs ==
  {Catalog, [i \in 1 .. Len(Catalog) |-> [Catalog[i] EXCEPT !.isActive = FALSE]]}

RulesPartySizes == {2, BookingRules.maxPartySize + 1}

InitRules ==
  /\ restaurant \in RulesVenues
  /\ tables \in RulesCatalogs
  /\ bookings \in {{}, {StoredBooking(1, 2, 0, 0, 1, {2}, "confirmed")}}
  /\ nextId = 2
  /\ resp = [op |-> "none"]
  /\ call = NoCall
  /\ reqs = <<>>
  /\ ops = 0
  /\ availabilities = {}

\* The answer of checkAvailability.
CheckAvailabilityResponse(r, tbls, bks, user, partySize, date, startTime, endTime) ==
  LET status == checkRestaurantOpen(r, date, startTime, endTime)
      availability ==
        findAvailableTables(tbls, r, bks, date, startTime, endTime, partySize,
                            IsStaff(user))
  IN IF ~status.isOpen
       THEN [op |-> "checkAvailability", code |-> 200, available |-> FALSE,
             reason |-> status.reason, tables |-> {}]
     ELSE [op |-> "checkAvailability", code |-> 200,
           available |-> availability.available, reason |-> availability.reason,
           tables |-> TableIds(availability.tables)]

CheckAvailabilityStep(user, partySize, date, time, duration) ==
  LET startTime == Ts(date, time)
      endTime == startTime + DurationOr(duration, DefaultDuration)
  IN /\ call' = [fn |-> "checkAvailability", user |-> user, partySize |-> partySize,
                 date |-> date, startTime |-> startTime, endTime |-> endTime]
     /\ resp' = CheckAvailabilityResponse(restaurant, tables, bookings, user,
                                          partySize, date, startTime, endTime)
     /\ UNCHANGED <<restaurant, tables, bookings, nextId, reqs, availabilities>>

\* POST /api/bookings/check-availability
CheckAvailability ==
  /\ call = NoCall
  /\ \E user \in {Staff, Customer, Anonymous}, partySize \in RulesPartySizes,
        date \in Dates, time \in Times, duration \in Durations \cup {NA} :
       CheckAvailabilityStep(user, partySize, date, time, duration)
  /\ UNCHANGED ops

\* POST /api/bookings, the request kept next to its response.
CreateBookingLogged ==
  /\ call = NoCall
  /\ \E user \in {Staff, Customer, Anonymous}, partySize \in RulesPartySizes,
        date \in Dates, time \in Times, duration \in Durations \cup {NA},
        tableIds \in {{}, {1}} :
       /\ CreateBookingStep(user, partySize, date, time, duration, tableIds)
       /\ call' = [fn |-> "createBooking", user |-> user, partySize |-> partySize,
                   date |-> date, startTime |-> Ts(date, time),
                   endTime |-> Ts(date, time) + DurationOr(duration, DefaultDuration)]
  /\ UNCHANGED ops

NextRules == CheckAvailability \/ CreateBookingLogged

SpecRules == InitRules /\ [][NextRules]_vars

\* ------------------------------------ the availability cache, rebuilt directly
\* Day 0 is open all day or overnight; day 1 has no weekly entry, is closed
\* weekly, or is open for one tick; date 1 may be a closed date and may carry a
\* special event with its own hours; a slot lasts one or two ticks.
CacheVenues ==
  {[openingHours |-> oh, closedDates |-> cd, specialEvents |-> ev, maxCapacity |-> 6,
    bookingRules |-> [BookingRules EXCEPT !.timeSlotDuration = sd]] :
     oh \in {<<[day |-> 0, open |-> 0, close |-> DayLen - 1, isClosed |-> FALSE]>>,
             <<[day |-> 0, open |-> DayLen - 1, close |-> 1, isClosed |-> FALSE],
               [day |-> 1, open |-> 0, close |-> DayLen - 1, isClosed |-> TRUE]>>,
             <<[day |-> 0, open |-> DayLen - 1, close |-> 1, isClosed |-> FALSE],
               [day |-> 1, open |-> 0, close |-> 1, isClosed |-> FALSE]>>},
     cd \in {<<>>, <<1>>},
     ev \in {<<>>, <<[date |-> 1, hours |-> [has |-> TRUE, open |-> 0, close |-> 1]]>>},
     sd \in {1, 2}}

CacheBookingStores ==
  LET first == {StoredBooking(1, 2, d, t, 1, ts, st) :
                  d \in Dates, t \in Times, ts \in {{1}, {1, 2}},
                  st \in {"confirmed", "cancelled"}}
      second == StoredBooking(2, 2, 0, 0, 2, {1}, "seated")
  IN {{}} \cup {{b} : b \in first} \cup {{b, second} : b \in first}

InitCache ==
  /\ restaurant \in CacheVenues
  /\ tables \in AvailCatalogs
  /\ bookings \in CacheBookingStores
  /\ nextId = 3
  /\ resp = [op |-> "none"]
  /\ call = NoCall
  /\ reqs = <<>>
  /\ ops = 0
  /\ availabilities = {}

\* updateAvailabilityCache(date), called on its own; repeated tells that the
\* call before it was for the same date.
CallUpdateAvailabilityCache ==
  /\ \E date \in Dates :
       /\ availabilities' =
            updateAvailabilityCache(availabilities, restaurant, tables, bookings, date)
       /\ call' = [fn |-> "updateAvailabilityCache", date |-> date,
                   repeated |-> call # NoCall /\ call.date = date]
  /\ UNCHANGED <<restaurant, tables, bookings, nextId, resp, reqs, ops>>

SpecCache == InitCache /\ [][CallUpdateAvailabilityCache]_vars

\* ------------------------------------------------------------ table handlers
\* The caches of a set of dates, rebuilt one date after the other.
RECURSIVE RefreshDates(_, _, _, _, _)
RefreshDates(coll, r, tbls, bks, dates) ==
  IF dates = {} THEN coll
  ELSE LET d == CHOOSE x \in dates : \A y \in dates : x <= y
       IN RefreshDates(updateAvailabilityCache(coll, r, tbls, bks, d), r, tbls, bks,
                       dates \ {d})

\* Position of the table with the id in the catalog, 0 when there is none.
TableIndex(tbls, id) == FindIndex({i \in 1 .. Len(tbls) : tbls[i].id = id})

\* req.body of PUT /api/tables/:id: one flag, set or cleared.
TableBodies == [field : {"isActive", "isReservable"}, value : BOOLEAN]

TableUpdate(t, body) ==
  IF body.field = "isActive" THEN [t EXCEPT !.isActive = body.value]
  ELSE [t EXCEPT !.isReservable = body.value]

\* futureBookings of updateTable: pending or confirmed bookings of the table
\* dated now or later; their dates are the affectedDates.
AffectedDates(bks, id, now) ==
  {b.date : b \in {x \in bks : /\ id \in x.tables
                               /\ Ts(x.date, 0) >= now
                               /\ x.status \in {"pending", "confirmed"}}}

\* Ids a request may name as :id; the last one is in no catalog.
RequestedTableIds == 1 .. (Len(Catalog) + 1)

\* PUT /api/tables/:id; now is the clock read by new Date().
UpdateTable ==
  /\ ops < MaxOps
  /\ ops' = ops + 1
  /\ \E id \in RequestedTableIds, body \in TableBodies, now \in {Ts(d, 1) : d \in Dates} :
       LET i == TableIndex(tables, id)
           updated == [tables EXCEPT ![i] = TableUpdate(@, body)]
       IN IF i = 0
            THEN /\ resp' = [op |-> "updateTable", id |-> id, code |-> 404]
                 /\ UNCHANGED <<tables, availabilities>>
          ELSE /\ tables' = updated
               /\ availabilities' =
                    IF ~updated[i].isActive
                      THEN RefreshDates(availabilities, restaurant, updated, bookings,
                                        AffectedDates(bookings, id, now))
                    ELSE availabilities
               /\ resp' = [op |-> "updateTable", id |-> id, code |-> 200]
  /\ UNCHANGED <<restaurant, bookings, nextId, call, reqs>>

\* Booking.findOne({tables: id}): a booking of any status naming the table.
HasBookings(bks, id) == \E b \in bks : id \in b.tables

\* deleteTable with the booking test left out.
DeleteTableResultUnchecked(tbls, bks, id) ==
  IF TableIndex(tbls, id) = 0 THEN [code |-> 404, tables |-> tbls]
  ELSE [code |-> 200, tables |-> SelectSeq(tbls, LAMBDA t : t.id # id)]

\* What deleteTable answers and leaves in the catalog.
DeleteTableResult(tbls, bks, id) ==
  IF HasBookings(bks, id) THEN [code |-> 400, tables |-> tbls]
  ELSE IF TableIndex(tbls, id) = 0 THEN [code |-> 404, tables |-> tbls]
  ELSE [code |-> 200, tables |-> SelectSeq(tbls, LAMBDA t : t.id # id)]

\* DELETE /api/tables/:id
DeleteTableStep ==
  \E id \in RequestedTableIds :
    LET result == DeleteTableResult(tables, bookings, id)
    IN /\ tables' = result.tables
       /\ resp' = [op |-> "deleteTable", id |-> id, code |-> result.code,
                   referenced |-> HasBookings(bookings, id),
                   existed |-> TableIndex(tables, id) # 0]

DeleteTable ==
  /\ ops < MaxOps
  /\ ops' = ops + 1
  /\ DeleteTableStep
  /\ UNCHANGED <<restaurant, bookings, nextId, call, reqs, availabilities>>

\* getTableAvailability with the status filter of its booking query left out.
TableAvailabilityAnyStatus(tbls, bks, date) ==
  LET active == SelectSeq(tbls, LAMBDA t : t.isActive)
  IN [i \in 1 .. Len(active) |->
        [tableId |-> active[i].id, capacity |-> active[i].capacity,
         bookings |->
           LET tableBookings ==
                 InIdOrder({b \in bks : b.date = date /\ active[i].id \in b.tables})
           IN [k \in 1 .. Len(tableBookings) |->
                 [bookingId |-> tableBookings[k].id, start |-> tableBookings[k].start,
                  end |-> tableBookings[k].end,
                  partySize |-> tableBookings[k].partySize]]]]

\* The data of getTableAvailability: one entry per active table with the
\* bookings of the date that hold it.
TableAvailability(tbls, bks, date) ==
  LET active == SelectSeq(tbls, LAMBDA t : t.isActive)
  IN [i \in 1 .. Len(active) |->
        [tableId |-> active[i].id, capacity |-> active[i].capacity,
         bookings |->
           LET tableBookings ==
                 InIdOrder({b \in CacheBookings(bks, date) : active[i].id \in b.tables})
           IN [k \in 1 .. Len(tableBookings) |->
                 [bookingId |-> tableBookings[k].id, start |-> tableBookings[k].start,
                  end |-> tableBookings[k].end,
                  partySize |-> tableBookings[k].partySize]]]]

\* GET /api/tables/availability/:date
GetTableAvailability ==
  /\ ops < MaxOps
  /\ ops' = ops + 1
  /\ \E date \in Dates :
       /\ availabilities' =
            updateAvailabilityCache(availabilities, restaurant, tables, bookings, date)
       /\ resp' = [op |-> "getTableAvailability", date |-> date, code |-> 200,
                   data |-> TableAvailability(tables, bookings, date)]
  /\ UNCHANGED <<restaurant, tables, bookings, nextId, call, reqs>>

\* POST /api/bookings for a party of two, by staff or a customer, with or
\* without a requested table.
CreateBookingForTwo ==
  /\ ops < MaxOps
  /\ ops' = ops + 1
  /\ \E user \in {Staff, Customer}, date \in Dates, time \in {0, DayLen - 1},
        tableIds \in {{}, {1}} :
       CreateBookingAs(user, 2, date, time, NA, tableIds)

NextTables ==
  \/ CreateBookingForTwo
  \/ UpdateBookingStatus
  \/ UpdateTable
  \/ DeleteTable
  \/ GetTableAvailability

\* The venue with no booking yet, or with one cancelled booking of table 1 and
\* the snapshots its handlers wrote.
InitTables ==
  /\ restaurant = Venue
  /\ tables = Catalog
  /\ bookings \in {{}, {StoredBooking(1, 2, 0, 0, DefaultDuration, {1}, "cancelled")}}
  /\ nextId = 2
  /\ resp = [op |-> "none"]
  /\ call = NoCall
  /\ reqs = <<>>
  /\ ops = 0
  /\ availabilities =
       RefreshDates({}, restaurant, tables, bookings, {b.date : b \in bookings})

SpecTables == InitTables /\ [][NextTables]_vars

\* ------------------------------------- createBooking, one await after another
\* Restaurant.findOne() before any settings document was created: null.
NoRestaurant == [missing |-> TRUE]

\* One request in flight; todo lists the tables whose snapshot the cache refresh
\* has still to write.
StepRequests ==
  [user : {Staff, Customer}, partySize : PartySizes, date : Dates, time : Times,
   duration : {NA}, tableIds : {{}, {1}}, pc : {"start"}, assigned : {{}}, code : {0},
   reason : {""}, todo : {<<>>}]

\* The request, and the bookings and snapshots it found.
InitSteps ==
  /\ restaurant \in {Venue, NoRestaurant}
  /\ tables = Catalog
  /\ bookings \in {{}} \cup (IF restaurant = Venue
                              THEN {{StoredBooking(1, 2, 1, 0, 1, {2}, "confirmed")}}
                              ELSE {})
  /\ nextId = 2
  /\ resp = [op |-> "none"]
  /\ reqs \in [1 .. 1 -> StepRequests]
  /\ ops = 0
  /\ availabilities =
       IF restaurant = Venue
         THEN RefreshDates({}, restaurant, tables, bookings, {b.date : b \in bookings})
       ELSE {}
  /\ call = [fn |-> "createBooking", bookings |-> bookings,
             availabilities |-> availabilities]

Finish(q, code, reason) == [q EXCEPT !.pc = "done", !.code = code, !.reason = reason]

\* lines 102-156 of createBooking; checkRestaurantOpen answers 'Restaurant
\* configuration not found' when there is no settings document.
StepValidate ==
  LET q == reqs[1]
  IN /\ q.pc = "start"
     /\ ~IsStaff(q.user)
     /\ reqs' = [reqs EXCEPT ![1] =
                   IF restaurant = NoRestaurant
                     THEN Finish(q, 400, "Restaurant configuration not found")
                   ELSE LET v == CreateValidation(restaurant, tables, bookings,
                                                  q.partySize, q.date, ReqStart(q),
                                                  ReqEnd(q), q.tableIds)
                        IN IF v.ok THEN [q EXCEPT !.pc = "validated"]
                           ELSE Finish(q, v.code, v.reason)]
     /\ UNCHANGED <<restaurant, tables, bookings, nextId, resp, call, ops, availabilities>>

\* lines 158-184 of createBooking; without a settings document the
\* findAvailableTables of a staff request ends in a TypeError (its tables field
\* is undefined, or restaurant.maxCapacity is read from null).
StepAssign ==
  LET q == reqs[1]
  IN /\ q.pc = "validated" \/ (q.pc = "start" /\ IsStaff(q.user))
     /\ reqs' = [reqs EXCEPT ![1] =
                   IF q.tableIds # {}
                     THEN [q EXCEPT !.pc = "assigned", !.assigned = q.tableIds]
                   ELSE IF restaurant = NoRestaurant
                     THEN Finish(q, 500, "Server error")
                   ELSE LET a == CreateAssignment(restaurant, tables, bookings,
                                                  q.partySize, q.date, ReqStart(q),
                                                  ReqEnd(q), q.tableIds, IsStaff(q.user))
                        IN IF a.ok THEN [q EXCEPT !.pc = "assigned", !.assigned = a.tables]
                           ELSE Finish(q, 500, "Server error")]
     /\ UNCHANGED <<restaurant, tables, bookings, nextId, resp, call, ops, availabilities>>

\* Booking.create, line 212
StepCreate ==
  LET q == reqs[1]
  IN /\ q.pc = "assigned"
     /\ bookings' = bookings \cup
          {BookingData(nextId, q.user, q.partySize, q.date, ReqStart(q), ReqEnd(q),
                       DurationOr(q.duration, DefaultDuration), q.assigned)}
     /\ nextId' = nextId + 1
     /\ reqs' = [reqs EXCEPT ![1] = [q EXCEPT !.pc = "created"]]
     /\ UNCHANGED <<restaurant, tables, resp, call, ops, availabilities>>

\* updateAvailabilityCache, lines 252-330: the settings, the active tables and
\* the bookings are read; restaurant.openingHours of null throws into the
\* catch of createBooking (500).
StepCacheRead ==
  LET q == reqs[1]
      active == SelectSeq(tables, LAMBDA t : t.isActive)
  IN /\ q.pc = "created"
     /\ reqs' = [reqs EXCEPT ![1] =
                   IF restaurant = NoRestaurant THEN Finish(q, 500, "Server error")
                   ELSE [q EXCEPT !.pc = "caching",
                                  !.todo = [i \in 1 .. Len(active) |-> active[i].id]]]
     /\ UNCHANGED <<restaurant, tables, bookings, nextId, resp, call, ops, availabilities>>

\* updateAvailabilityCache, one pass of the loop over the tables (an upsert).
StepCacheWrite ==
  LET q == reqs[1]
      id == Head(q.todo)
  IN /\ q.pc = "caching"
     /\ q.todo # <<>>
     /\ availabilities' =
          {d \in availabilities : ~(d.date = q.date /\ d.tableId = id)}
            \cup {ApplyUpdate(FindSnapshot(availabilities, q.date, id),
                              Snapshot(restaurant, bookings, q.date, id))}
     /\ reqs' = [reqs EXCEPT ![1] = [q EXCEPT !.todo = Tail(q.todo)]]
     /\ UNCHANGED <<restaurant, tables, bookings, nextId, resp, call, ops>>

\* res.status(201), lines 217-220
StepRespond ==
  LET q == reqs[1]
  IN /\ q.pc = "caching"
     /\ q.todo = <<>>
     /\ reqs' = [reqs EXCEPT ![1] = Finish(q, 201, "")]
     /\ UNCHANGED <<restaurant, tables, bookings, nextId, resp, call, ops, availabilities>>

\* The request is abandoned between two awaits: the handler does not resume.
StepAbandon ==
  LET q == reqs[1]
  IN /\ q.pc \notin {"done", "abandoned"}
     /\ reqs' = [reqs EXCEPT ![1] = [q EXCEPT !.pc = "abandoned"]]
     /\ UNCHANGED <<restaurant, tables, bookings, nextId, resp, call, ops, availabilities>>

NextSteps ==
  \/ StepValidate
  \/ StepAssign
  \/ StepCreate
  \/ StepCacheRead
  \/ StepCacheWrite
  \/ StepRespond
  \/ StepAbandon

SpecSteps == InitSteps /\ [][NextSteps]_vars

\* ------------------------- deleteTable between the awaits of createBooking
DeleteTableBetween ==
  /\ DeleteTableStep
  /\ UNCHANGED <<restaurant, bookings, nextId, call, reqs, ops, availabilities>>

NextDelete == NextConc \/ DeleteTableBetween

SpecDelete == InitConc /\ [][NextDelete]_vars

\* --------------------------------------------------------- calendar handlers
\* POST /api/restaurant/closed-dates
AddClosedDate ==
  /\ ops < MaxOps
  /\ ops' = ops + 1
  /\ \E date \in Dates :
       /\ restaurant' = [restaurant EXCEPT !.closedDates = Append(@, date)]
       /\ resp' = [op |-> "addClosedDate", code |-> 201, dates |-> {date}]
  /\ UNCHANGED <<tables, bookings, nextId, call, reqs, availabilities>>

\* POST /api/restaurant/special-events
AddSpecialEvent ==
  /\ ops < MaxOps
  /\ ops' = ops + 1
  /\ \E event \in [date : Dates, hours : {NoHours, [has |-> TRUE, open |-> 0, close |-> 1]}] :
       /\ restaurant' = [restaurant EXCEPT !.specialEvents = Append(@, event)]
       /\ resp' = [op |-> "addSpecialEvent", code |-> 201, dates |-> {event.date}]
  /\ UNCHANGED <<tables, bookings, nextId, call, reqs, availabilities>>

\* Bodies of PUT /api/restaurant/opening-hours: both days open all day, or day 1
\* closed.
OpeningHoursBodies ==
  {<<[day |-> 0, open |-> 0, close |-> DayLen - 1, isClosed |-> FALSE],
     [day |-> 1, open |-> 0, close |-> DayLen - 1, isClosed |-> c]>> : c \in BOOLEAN}

\* PUT /api/restaurant/opening-hours
UpdateOpeningHours ==
  /\ ops < MaxOps
  /\ ops' = ops + 1
  /\ \E openingHours \in OpeningHoursBodies :
       /\ restaurant' = [restaurant EXCEPT !.openingHours = openingHours]
       /\ resp' = [op |-> "updateOpeningHours", code |-> 200, dates |-> Dates]
  /\ UNCHANGED <<tables, bookings, nextId, call, reqs, availabilities>>

\* The venue, with no booking or one, and no snapshot stored yet.
InitCalendar ==
  /\ restaurant = Venue
  /\ tables = Catalog
  /\ bookings \in {{}, {StoredBooking(1, 2, 1, 0, 1, {1}, "confirmed")}}
  /\ nextId = 2
  /\ resp = [op |-> "none"]
  /\ call = NoCall
  /\ reqs = <<>>
  /\ ops = 0
  /\ availabilities = {}

NextCalendar ==
  \/ AddClosedDate
  \/ AddSpecialEvent
  \/ UpdateOpeningHours
  \/ CallUpdateAvailabilityCache

SpecCalendar == InitCalendar /\ [][NextCalendar]_vars

\* ------------------------- requests next to a cache that is stale or rebuilt
\* Snapshots of date 0 written while a booking held table 1, which has since
\* moved away.
StaleCache ==
  updateAvailabilityCache({}, Venue, Catalog,
                          {StoredBooking(1, 2, 0, DayLen - 1, 1, {1}, "confirmed")}, 0)

InitBlind ==
  /\ restaurant = Venue
  /\ tables = Catalog
  /\ bookings \in {{}, {StoredBooking(1, 2, 1, 0, 1, {1}, "confirmed")}}
  /\ nextId = 2
  /\ resp = [op |-> "none"]
  /\ call = NoCall
  /\ reqs = <<>>
  /\ ops = 0
  /\ availabilities \in {{}, StaleCache}

BlindPartySizes == {2, 4}

CheckAvailabilityCounted ==
  /\ ops < MaxOps
  /\ ops' = ops + 1
  /\ \E user \in {Customer, Anonymous}, partySize \in BlindPartySizes, date \in Dates,
        time \in Times :
       CheckAvailabilityStep(user, partySize, date, time, NA)

CreateBookingCounted ==
  /\ ops < MaxOps
  /\ ops' = ops + 1
  /\ \E user \in {Customer, Anonymous}, partySize \in BlindPartySizes, date \in Dates,
        time \in Times :
       /\ CreateBookingStep(user, partySize, date, time, NA, {})
       /\ call' = [fn |-> "createBooking", user |-> user, partySize |-> partySize,
                   date |-> date, startTime |-> Ts(date, time),
                   endTime |-> Ts(date, time) + DefaultDuration]

\* One request is answered; the snapshots are rebuilt before or after it.
CheckAvailabilityOnce == call = NoCall /\ CheckAvailabilityCounted

CreateBookingOnce == call = NoCall /\ CreateBookingCounted

NextBlind == CheckAvailabilityOnce \/ CreateBookingOnce \/ GetTableAvailability

SpecBlind == InitBlind /\ [][NextBlind]_vars

\* --------------------------------- customers only: no staff operation at all
CreateBookingByCustomer ==
  /\ ops < MaxOps
  /\ ops' = ops + 1
  /\ \E user \in {Customer, Anonymous}, partySize \in PartySizes, date \in Dates,
        time \in Times, duration \in Durations \cup {NA}, tableIds \in TableIdSets :
       CreateBookingAs(user, partySize, date, time, duration, tableIds)

UpdateBookingByCustomer ==
  /\ ops < MaxOps
  /\ ops' = ops + 1
  /\ \E b \in bookings, body \in UpdateBodies :
       /\ UpdateBookingStep(Customer, b, body)
       /\ call' = [fn |-> "updateBooking", user |-> Customer, id |-> b.id, body |-> body]

NextCustomer == CreateBookingByCustomer \/ UpdateBookingByCustomer

SpecCustomer == Init /\ [][NextCustomer]_vars

\* ------------------------------- a special event that declares customCapacity
\* Date 1 carries a special event with customCapacity 10 and no custom hours.
EventVenue ==
  [Venue EXCEPT !.specialEvents = <<[date |-> 1, hours |-> NoHours, customCapacity |-> 10]>>]

InitEvent ==
  /\ restaurant = EventVenue
  /\ tables = Catalog
  /\ bookings \in {{}, {StoredBooking(1, 2, 1, 0, 1, {1}, "confirmed")}}
  /\ nextId = 2
  /\ resp = [op |-> "none"]
  /\ call = NoCall
  /\ reqs = <<>>
  /\ ops = 0
  /\ availabilities = {}

NextEvent == CheckAvailabilityCounted \/ CreateBookingCounted

SpecEvent == InitEvent /\ [][NextEvent]_vars

\* ------------------------------- checkAvailability, then createBooking; online
CheckAvailabilityOnline ==
  /\ ops < MaxOps
  /\ ops' = ops + 1
  /\ \E user \in {Customer, Anonymous}, partySize \in RulesPartySizes, date \in Dates,
        time \in Times, duration \in Durations \cup {NA} :
       CheckAvailabilityStep(user, partySize, date, time, duration)

CreateBookingOnlineLogged ==
  /\ ops < MaxOps
  /\ ops' = ops + 1
  /\ \E user \in {Customer, Anonymous}, partySize \in RulesPartySizes, date \in Dates,
        time \in Times, duration \in Durations \cup {NA} :
       /\ CreateBookingStep(user, partySize, date, time, duration, {})
       /\ call' = [fn |-> "createBooking", user |-> user, partySize |-> partySize,
                   date |-> date, startTime |-> Ts(date, time),
                   endTime |-> Ts(date, time) + DurationOr(duration, DefaultDuration)]

NextAgree == CheckAvailabilityOnline \/ CreateBookingOnlineLogged

SpecAgree == InitRules /\ [][NextAgree]_vars

\* =================================================================== properties
IsOpenCall == call.fn = "checkRestaurantOpen"

\* The special events pinned to the call's date that declare custom hours.
DeclaringEvents(r, date) ==
  {i \in 1 .. Len(r.specialEvents) :
     r.specialEvents[i].date = date /\ r.specialEvents[i].hours.has}

\* A window lies inside the hours (open, close) of a date, the close boundary
\* falling on the next day when close is earlier than open.
InsideHours(date, open, close, startTime, endTime) ==
  LET openTs == date * DayLen + open
      closeTs == IF close < open THEN (date + 1) * DayLen + close
                 ELSE date * DayLen + close
  IN startTime >= openTs /\ endTime <= closeTs

\* C7: on a date that has a closed-date entry checkRestaurantOpen answers closed
\* for every window, also when a special event with custom hours is pinned to
\* the date and the window lies inside those hours.
C7_ClosedDatePrecedence ==
  (IsOpenCall /\ \E i \in 1 .. Len(restaurant.closedDates) :
                    restaurant.closedDates[i] = call.date)
    => ~call.result.isOpen

C7_Witness ==
  /\ IsOpenCall
  /\ \E i \in 1 .. Len(restaurant.closedDates) : restaurant.closedDates[i] = call.date
  /\ \E i \in DeclaringEvents(restaurant, call.date) :
       InsideHours(call.date, restaurant.specialEvents[i].hours.open,
                   restaurant.specialEvents[i].hours.close,
                   call.startTime, call.endTime)
  /\ ~call.result.isOpen

\* C8: on a date with no closed-date entry and a special event declaring custom
\* hours, the answer is the one the hours of a declaring event give (open iff the
\* window lies inside them), whatever the weekly entry of the weekday says.
C8_EventHoursDecide ==
  (/\ IsOpenCall
   /\ ~IsClosedDate(restaurant, call.date)
   /\ DeclaringEvents(restaurant, call.date) # {})
    => \E i \in DeclaringEvents(restaurant, call.date) :
         call.result.isOpen <=>
           InsideHours(call.date, restaurant.specialEvents[i].hours.open,
                       restaurant.specialEvents[i].hours.close,
                       call.startTime, call.endTime)

\* C9: on a date resolved as not closed with hours (open, close) the answer is
\* open iff start >= openTimestamp and end <= closeTimestamp, the close boundary
\* on the next day when close is earlier than open.
C9_OpenIffInsideHours ==
  LET h == DayHours(restaurant, call.date)
  IN (IsOpenCall /\ ~IsClosedDate(restaurant, call.date) /\ h.found /\ ~h.isClosed)
       => (call.result.isOpen <=>
             InsideHours(call.date, h.open, h.close, call.startTime, call.endTime))

\* An overnight day, and a window that ends exactly at the next-day close.
C9_Witness ==
  LET h == DayHours(restaurant, call.date)
  IN /\ IsOpenCall /\ ~IsClosedDate(restaurant, call.date) /\ h.found /\ ~h.isClosed
     /\ h.close < h.open
     /\ call.startTime = call.date * DayLen + h.open
     /\ call.endTime = (call.date + 1) * DayLen + h.close
     /\ call.result.isOpen

IsSolverCall == call.fn = "findBestTableCombination"

\* C10: when some candidate has capacity exactly P, findBestTableCombination
\* returns exactly one table, of capacity P.
C10_ExactFitWins ==
  (IsSolverCall /\ \E i \in 1 .. Len(call.cands) : call.cands[i].capacity = call.partySize)
    => /\ Len(call.result) = 1
       /\ call.result[1].capacity = call.partySize
       /\ \E i \in 1 .. Len(call.cands) : call.cands[i] = call.result[1]

\* An exact table listed after a larger one, with a pair that would also fit.
C10_Witness ==
  /\ IsSolverCall
  /\ Len(call.cands) >= 3
  /\ call.cands[1].capacity > call.partySize
  /\ \E i \in 2 .. Len(call.cands) : call.cands[i].capacity = call.partySize
  /\ \E c \in Pairs(Len(call.cands)) :
       /\ call.cands[c[1]].capacity < call.partySize
       /\ call.cands[c[2]].capacity < call.partySize
       /\ call.cands[c[1]].capacity + call.cands[c[2]].capacity >= call.partySize
  /\ Len(call.result) = 1 /\ call.result[1].capacity = call.partySize

NoExactFit == \A i \in 1 .. Len(call.cands) : call.cands[i].capacity # call.partySize

SingleSuffices == \E i \in 1 .. Len(call.cands) : call.cands[i].capacity >= call.partySize

\* C11: with no candidate of capacity exactly P and some candidate of capacity
\* >= P, findBestTableCombination returns one table, of the least capacity
\* among the candidates of capacity >= P, and the first such in input order.
C11_SmallestSufficientSingle ==
  (IsSolverCall /\ NoExactFit /\ SingleSuffices)
    => /\ Len(call.result) = 1
       /\ \E i \in 1 .. Len(call.cands) :
            /\ call.result[1] = call.cands[i]
            /\ call.cands[i].capacity >= call.partySize
            /\ \A j \in 1 .. Len(call.cands) :
                 call.cands[j].capacity >= call.partySize
                   => \/ call.cands[i].capacity < call.cands[j].capacity
                      \/ call.cands[i].capacity = call.cands[j].capacity /\ i <= j

\* Two candidates tied at the least sufficient capacity, listed after a larger
\* one; the first of the two is returned.
C11_Witness ==
  /\ IsSolverCall /\ NoExactFit /\ SingleSuffices
  /\ Len(call.result) = 1
  /\ \E i \in 2 .. Len(call.cands) : \E j \in (i + 1) .. Len(call.cands) :
       /\ call.result[1] = call.cands[i]
       /\ call.cands[j].capacity = call.cands[i].capacity
       /\ call.cands[1].capacity > call.cands[i].capacity

\* The pairs (triples) of candidate positions whose combined capacity is >= P.
QualifyingPairs ==
  {c \in (1 .. Len(call.cands)) \X (1 .. Len(call.cands)) :
     c[1] < c[2] /\ call.cands[c[1]].capacity + call.cands[c[2]].capacity >= call.partySize}

QualifyingTriples ==
  {c \in (1 .. Len(call.cands)) \X (1 .. Len(call.cands)) \X (1 .. Len(call.cands)) :
     /\ c[1] < c[2] /\ c[2] < c[3]
     /\ call.cands[c[1]].capacity + call.cands[c[2]].capacity
          + call.cands[c[3]].capacity >= call.partySize}

PairSum(c) == call.cands[c[1]].capacity + call.cands[c[2]].capacity

TripleSum(c) ==
  call.cands[c[1]].capacity + call.cands[c[2]].capacity + call.cands[c[3]].capacity

\* C12: with no single candidate of capacity >= P and some qualifying pair,
\* findBestTableCombination returns the pair (i < j) of least combined capacity
\* among the qualifying pairs, the first in enumeration order among those tied.
C12_MinimalWastePair ==
  (IsSolverCall /\ ~SingleSuffices /\ QualifyingPairs # {})
    => /\ Len(call.result) = 2
       /\ \E c \in QualifyingPairs :
            /\ call.result = <<call.cands[c[1]], call.cands[c[2]]>>
            /\ \A d \in QualifyingPairs :
                 \/ PairSum(c) < PairSum(d)
                 \/ PairSum(c) = PairSum(d) /\ (c = d \/ ComboBefore(c, d))

\* A pair is returned although a larger qualifying pair comes earlier in the
\* enumeration and another pair of the same capacity comes later.
C12_Witness ==
  /\ IsSolverCall /\ ~SingleSuffices
  /\ Len(call.result) = 2
  /\ \E c \in QualifyingPairs : \E d \in QualifyingPairs : \E e \in QualifyingPairs :
       /\ call.result = <<call.cands[c[1]], call.cands[c[2]]>>
       /\ ComboBefore(d, c) /\ PairSum(d) > PairSum(c)
       /\ ComboBefore(c, e) /\ PairSum(e) = PairSum(c)

\* The candidates as catalog tables, all active and reservable.
CandsAsTables ==
  [i \in 1 .. Len(call.cands) |->
     [id |-> call.cands[i].id, capacity |-> call.cands[i].capacity,
      isActive |-> TRUE, isReservable |-> TRUE]]

\* C13: findBestTableCombination returns a triple only when no single table and
\* no pair qualifies, then the triple of least combined capacity >= P; it
\* returns at most 3 tables; it returns the empty list exactly when no single
\* table, pair or triple qualifies, which findAvailableTables reports as
\* unavailable for lack of a suitable table configuration.
C13_TripleLastThenEmpty ==
  IsSolverCall
    => /\ Len(call.result) <= 3
       /\ Len(call.result) = 3
            => /\ ~SingleSuffices /\ QualifyingPairs = {}
               /\ \E c \in QualifyingTriples :
                    /\ call.result = <<call.cands[c[1]], call.cands[c[2]],
                                       call.cands[c[3]]>>
                    /\ \A d \in QualifyingTriples : TripleSum(c) <= TripleSum(d)
       /\ (~SingleSuffices /\ QualifyingPairs = {} /\ QualifyingTriples # {})
            => Len(call.result) = 3
       /\ Len(call.result) = 0
            <=> (~SingleSuffices /\ QualifyingPairs = {} /\ QualifyingTriples = {})
       /\ (Len(call.result) = 0 /\ Len(call.cands) > 0)
            => LET a == findAvailableTables(CandsAsTables, restaurant, {}, 0, 0, 1,
                                            call.partySize, TRUE)
               IN /\ ~a.available
                  /\ a.reason = "No suitable table configuration available for the party size"

\* A triple is returned that is smaller than a qualifying triple enumerated
\* before it.
C13_Witness ==
  /\ IsSolverCall /\ ~SingleSuffices /\ QualifyingPairs = {}
  /\ Len(call.result) = 3
  /\ \E c \in QualifyingTriples : \E d \in QualifyingTriples :
       /\ call.result = <<call.cands[c[1]], call.cands[c[2]], call.cands[c[3]]>>
       /\ ComboBefore(d, c) /\ TripleSum(d) > TripleSum(c)

\* ----------------------------------------------------------- findAvailableTables
IsAvailCall == call.fn = "findAvailableTables"

\* The active bookings whose window only touches the requested one.
TouchingBookings ==
  {b \in bookings : /\ b.status \in {"pending", "confirmed", "seated"}
                    /\ (b.end = call.startTime \/ b.start = call.endTime)}

RECURSIVE TotalCapacity(_)
TotalCapacity(ts) ==
  IF Len(ts) = 0 THEN 0 ELSE ts[1].capacity + TotalCapacity(SubSeq(ts, 2, Len(ts)))

\* C15: when findAvailableTables answers available, the returned tables are
\* pairwise distinct, each is an active and reservable table of the catalog,
\* none is assigned to a pending/confirmed/seated booking of that date whose
\* window overlaps the requested one, and their total capacity is >= partySize.
C15_ReturnedTablesAreFree ==
  (IsAvailCall /\ call.result.available)
    => LET ts == call.result.tables
       IN /\ Len(ts) > 0
          /\ \A i \in 1 .. Len(ts) : \A j \in 1 .. Len(ts) : i # j => ts[i].id # ts[j].id
          /\ \A i \in 1 .. Len(ts) :
               /\ \E k \in 1 .. Len(tables) : tables[k] = ts[i]
               /\ ts[i].isActive /\ ts[i].isReservable
               /\ \A b \in bookings :
                    (/\ b.status \in {"pending", "confirmed", "seated"}
                     /\ b.date = call.date
                     /\ b.start < call.endTime /\ call.startTime < b.end)
                      => ts[i].id \notin b.tables
          /\ TotalCapacity(ts) >= call.partySize

\* A pair is returned while the one table that seats the party alone is held by
\* a seated booking overlapping the window.
C15_Witness ==
  /\ IsAvailCall /\ call.result.available
  /\ Len(call.result.tables) = 2
  /\ \E b \in bookings :
       /\ b.status = "seated" /\ b.date = call.date
       /\ b.start < call.endTime /\ call.startTime < b.end
       /\ \E k \in 1 .. Len(tables) :
            /\ tables[k].id \in b.tables /\ tables[k].capacity >= call.partySize
            /\ tables[k].isActive /\ tables[k].isReservable

\* The party sizes of the pending/confirmed/seated bookings of the date whose
\* window overlaps the requested one.
OverlapSum ==
  SumPartySize({b \in bookings :
                  /\ b.status \in {"pending", "confirmed", "seated"}
                  /\ b.date = call.date
                  /\ b.start < call.endTime /\ call.startTime < b.end})

CapacityReason == "This booking would exceed the restaurant capacity"

\* C16: for a non-staff request for which the solver finds a configuration,
\* findAvailableTables answers unavailable for capacity iff the party sizes of
\* the overlapping active bookings plus partySize exceed
\* floor(maxCapacity * maxCapacityThreshold / 100); a staff request is never
\* refused by this guard.
C16_CapacityGuardExact ==
  (IsAvailCall /\ call.result.reason \in {"", CapacityReason})
    => IF call.isStaff THEN call.result.available
       ELSE ~call.result.available
              <=> OverlapSum + call.partySize
                    > (restaurant.maxCapacity
                         * restaurant.bookingRules.maxCapacityThreshold) \div 100

\* ------------------------------------------------------------ booking handlers
Overlap(b1, b2) == b1.start < b2.end /\ b2.start < b1.end

\* C1: under any sequence of createBooking, updateBooking, updateBookingStatus
\* and deleteBooking, two distinct active bookings (pending, confirmed, seated)
\* that share a table never overlap.
C1_NoDoubleBooking ==
  \A b1 \in bookings : \A b2 \in bookings :
    (/\ b1.id # b2.id
     /\ b1.status \in ActiveStatuses /\ b2.status \in ActiveStatuses
     /\ b1.tables \cap b2.tables # {})
      => ~Overlap(b1, b2)

\* C3: after every online createBooking without tableIds, the non-cancelled
\* bookings that share a table have non-overlapping intervals.
C3_OnlineInsertionsNeverOverlap ==
  \A b1 \in bookings : \A b2 \in bookings :
    (/\ b1.id # b2.id
     /\ b1.status # "cancelled" /\ b2.status # "cancelled"
     /\ \E t \in b1.tables : t \in b2.tables)
      => (b1.end <= b2.start \/ b2.end <= b1.start)

\* The transitions of the booking lifecycle.
Transitions ==
  {<<"pending", "confirmed">>, <<"confirmed", "seated">>, <<"seated", "completed">>,
   <<"pending", "cancelled">>, <<"pending", "no-show">>,
   <<"confirmed", "cancelled">>, <<"confirmed", "no-show">>}

TerminalStatuses == {"completed", "cancelled", "no-show"}

\* C4: updateBookingStatus accepts a change from s to s' only when (s, s') is a
\* transition of the lifecycle; any other pair is answered with an error and the
\* booking keeps its status.
C4_OnlyLifecycleTransitions ==
  (resp.op = "updateBookingStatus" /\ resp.code # 404)
    => IF <<resp.from, resp.to>> \in Transitions
         THEN resp.code = 200
         ELSE /\ resp.code # 200
              /\ \A b \in bookings : b.id = resp.id => b.status = resp.from

\* C5: a booking whose status is completed, cancelled or no-show keeps that
\* status in every later state.
C5_TerminalStatusIsFinal ==
  [][\A b \in bookings : b.status \in TerminalStatuses =>
       \A c \in bookings' : c.id = b.id => c.status = b.status]_vars

\* C6: a staff createBooking whose tableIds include a table held by an active
\* booking overlapping the window is rejected and persists no booking.
C6_StaffConflictRejected ==
  (resp.op = "createBooking" /\ resp.isStaff /\ resp.tableIds # {} /\ resp.conflict)
    => (resp.code = 400 /\ resp.id = 0)

\* ---------------------------------------------------- interleaved createBooking
NoTableReasons ==
  {"No tables available for the requested time",
   "No suitable table configuration available for the party size",
   "One or more selected tables are not available"}

\* Request i, handled alone against the empty store, is accepted.
AcceptedAlone(i) ==
  LET q == reqs[i]
  IN CreateValidation(restaurant, tables, {}, q.partySize, q.date, ReqStart(q),
                      ReqEnd(q), q.tableIds).ok

\* Request i, handled after request j was booked, is refused: the table (set)
\* that seats one of them is the only one that can seat the other.
RefusedAfter(i, j) ==
  LET q == reqs[i]
      p == reqs[j]
      first == BookingData(1, p.user, p.partySize, p.date, ReqStart(p), ReqEnd(p),
                           DurationOr(p.duration, DefaultDuration),
                           CreateAssignment(restaurant, tables, {}, p.partySize, p.date,
                                            ReqStart(p), ReqEnd(p), p.tableIds,
                                            FALSE).tables)
      v == CreateValidation(restaurant, tables, {first}, q.partySize, q.date,
                            ReqStart(q), ReqEnd(q), q.tableIds)
  IN ~v.ok /\ v.reason \in NoTableReasons

Contending ==
  /\ DOMAIN reqs = 1 .. 2
  /\ ReqStart(reqs[1]) < ReqEnd(reqs[2]) /\ ReqStart(reqs[2]) < ReqEnd(reqs[1])
  /\ AcceptedAlone(1) /\ AcceptedAlone(2)
  /\ RefusedAfter(1, 2) /\ RefusedAfter(2, 1)

\* C2: of two concurrent createBooking requests that contend for the only table
\* (set) able to seat them, in every interleaving exactly one succeeds, the
\* other is refused for lack of a table, and the two are never both persisted
\* on the same table.
C2_ExactlyOneContenderSucceeds ==
  (Contending /\ reqs[1].pc = "done" /\ reqs[2].pc = "done")
    => /\ \E i \in 1 .. 2 :
            /\ reqs[i].code = 201
            /\ reqs[3 - i].code = 400
            /\ reqs[3 - i].reason \in NoTableReasons
       /\ \A b1 \in bookings : \A b2 \in bookings :
            (b1.id # b2.id /\ b1.tables \cap b2.tables # {}) => ~Overlap(b1, b2)

\* --------------------------------------------------- online-only constraints
IsRequest == call.fn \in {"checkAvailability", "createBooking"}

PartySizeReason == "Online booking is limited"

\* The response refuses the request for the given reason; nothing is persisted.
RefusedFor(reason) ==
  /\ resp.reason = reason
  /\ bookings \subseteq {StoredBooking(1, 2, 0, 0, 1, {2}, "confirmed")}
  /\ IF resp.op = "checkAvailability" THEN ~resp.available
     ELSE resp.code = 400 /\ resp.id = 0

\* The statement of C17 without a condition on the window: a non-staff request
\* with partySize > maxPartySize is refused by checkAvailability and by
\* createBooking for the online-party-size reason and persists no booking; a
\* staff request is never refused for that reason.
C17_OversizeOnlineRefused ==
  (IsRequest /\ call.partySize > restaurant.bookingRules.maxPartySize)
    => IF call.user.role = "staff" THEN resp.reason # PartySizeReason
       ELSE RefusedFor(PartySizeReason)

\* The request's window is open under checkRestaurantOpen.
WindowOpen ==
  checkRestaurantOpen(restaurant, call.date, call.startTime, call.endTime).isOpen

SomeActiveTable == \E i \in 1 .. Len(tables) : tables[i].isActive

\* C17, amended: a non-staff request with partySize > maxPartySize is always
\* refused and persists no booking; the reason is the online-party-size one
\* when the window is open and, for checkAvailability, some table is active
\* (a closed window or an empty catalog is reported first); a staff request is
\* never refused for the party-size reason.
C17_OversizeOnlineRefusedWhenOpen ==
  (IsRequest /\ call.partySize > restaurant.bookingRules.maxPartySize)
    => IF call.user.role = "staff" THEN resp.reason # PartySizeReason
       ELSE /\ RefusedFor(resp.reason)
            /\ (WindowOpen /\ (call.fn = "createBooking" \/ SomeActiveTable))
                 => RefusedFor(PartySizeReason)

\* An oversize customer request for an open window is refused by createBooking
\* for the party-size reason.
C17_Witness ==
  /\ call.fn = "createBooking" /\ call.user.role = "customer"
  /\ call.partySize > restaurant.bookingRules.maxPartySize
  /\ WindowOpen
  /\ RefusedFor(PartySizeReason)

\* C18: a createBooking request whose window checkRestaurantOpen resolves as
\* closed (closed date, weekly closed day, outside the hours) is refused with
\* the closure reason and persists no booking, for staff as for other callers.
C18_ClosedWindowRefusedForAll ==
  (call.fn = "createBooking" /\ ~WindowOpen)
    => RefusedFor(checkRestaurantOpen(restaurant, call.date, call.startTime,
                                      call.endTime).reason)

\* --------------------------------------------------------- availability cache
\* C19: running updateAvailabilityCache again for the same date, with the
\* tables, the settings and the bookings unchanged, leaves every snapshot with
\* the same free-slot list and the same blocked-slot list and adds no snapshot.
C19_RebuildIsIdempotent ==
  [][(/\ call'.fn = "updateAvailabilityCache"
      /\ call'.repeated
      /\ UNCHANGED <<restaurant, tables, bookings>>)
       => availabilities' = availabilities]_vars

\* C19 witness: the cache of a date was rebuilt twice in a row, and a snapshot of
\* that date lists free slots and a booking's blocked slot.
C19_Witness ==
  /\ call.fn = "updateAvailabilityCache"
  /\ call.repeated
  /\ \E d \in availabilities :
       /\ d.date = call.date
       /\ d.availableSlots # <<>>
       /\ \E i \in 1 .. Len(d.blockedSlots) : d.blockedSlots[i].reason = "booking"

\* Half-open intervals [a.start, a.end) and [b.start, b.end) share an instant.
SlotsOverlap(a, b) == a.start < b.end /\ b.start < a.end

\* C20: in every snapshot, no free slot overlaps a blocked slot of the same
\* date and table.
C20_FreeSlotsAvoidBlockedSlots ==
  \A d \in availabilities :
    \A i \in 1 .. Len(d.availableSlots) : \A j \in 1 .. Len(d.blockedSlots) :
      ~SlotsOverlap(d.availableSlots[i], d.blockedSlots[j])

\* The occupancy of a date: which tables its active bookings hold, and when.
Occupancy(bks, date) ==
  {<<b.id, b.tables, b.start, b.end>> : b \in CacheBookings(bks, date)}

\* The stored snapshots of a date equal a fresh rebuild, for every active table.
CacheFresh(coll, r, tbls, bks, date) ==
  \A i \in 1 .. Len(tbls) :
    tbls[i].isActive =>
      /\ \E d \in coll : d.date = date /\ d.tableId = tbls[i].id
      /\ FindSnapshot(coll, date, tbls[i].id) = Snapshot(r, bks, date, tbls[i].id)

\* C21: after every booking mutation, for every date whose occupancy the
\* operation changed (the original date too when a booking moves), the stored
\* snapshot of every active table equals a fresh rebuild from the current
\* tables, settings and bookings.
C21_CacheFreshAfterMutation ==
  [][\A date \in Dates :
       Occupancy(bookings, date) # Occupancy(bookings', date)
         => CacheFresh(availabilities', restaurant', tables', bookings', date)]_vars

\* updateBookingStatus has just moved a booking into cancelled or no-show.
StatusFreed ==
  /\ resp.op = "updateBookingStatus"
  /\ resp.code = 200
  /\ resp.to \in {"cancelled", "no-show"}

\* A snapshot of the table on the booking's date lists the booking as blocked.
ListedAsBlocked(b, tableId) ==
  \E d \in availabilities :
    /\ d.date = b.date
    /\ d.tableId = tableId
    /\ \E i \in 1 .. Len(d.blockedSlots) : d.blockedSlots[i].bookingId = b.id

\* Another active booking of the date holds the table during the window of b.
HeldByAnother(b, tableId) ==
  \E o \in OverlapQuery(bookings, b.date, b.start, b.end) :
    o.id # b.id /\ tableId \in o.tables

\* The table is a candidate for a request with the window of b.
CandidateAgain(b, tableId) ==
  tableId \in TableIds(AvailableTables(tables, bookings, b.date, b.start, b.end))

InService(tableId) ==
  \E i \in 1 .. Len(tables) :
    tables[i].id = tableId /\ tables[i].isActive /\ tables[i].isReservable

C23_TimeSlotMatchesDuration ==
  \A b \in bookings :
    /\ b.end = b.start + b.duration
    /\ b.date = StartOfDay(b.start)

\* The request ended in an error response, or was abandoned.
EndedWithoutSuccess ==
  \/ reqs[1].pc = "abandoned"
  \/ reqs[1].pc = "done" /\ reqs[1].code # 201

\* C24: a createBooking request that ends in an error response, or is abandoned
\* at any step, leaves the persisted bookings and the snapshots of its date as
\* they were before the request.
C24_NoPartialState ==
  EndedWithoutSuccess =>
    /\ bookings = call.bookings
    /\ {d \in availabilities : d.date = reqs[1].date}
         = {d \in call.availabilities : d.date = reqs[1].date}

\* ------------------------------------------------------ createBooking refusals
\* The reasons findAvailableTables gives when no table can be offered.
NoFitReasons ==
  {"No tables configured in the system",
   "No tables available for the requested time",
   "No suitable table configuration available for the party size"}

\* C25: when no free table, pair or triple fits the party of a request that
\* names no tables, createBooking answers with the reason for 'no table fits'
\* (a 400, not the 500 'Server error' of unexpected failures), for staff as for
\* other callers, and persists no booking.  For a non-staff caller the request
\* is one the calendar and the party-size limit let through.
C25_NoFitHasDomainReason ==
  [][(/\ call'.fn = "createBooking"
      /\ resp'.tableIds = {}
      /\ findBestTableCombination(
           AvailableTables(tables, bookings, call'.date, call'.startTime,
                           call'.endTime), call'.partySize) = <<>>
      /\ \/ IsStaff(call'.user)
         \/ /\ checkRestaurantOpen(restaurant, call'.date, call'.startTime,
                                   call'.endTime).isOpen
            /\ call'.partySize <= restaurant.bookingRules.maxPartySize)
       => /\ resp'.code = 400
          /\ resp'.reason \in NoFitReasons
          /\ bookings' = bookings]_vars

\* ------------------------------------------------------------- table catalog
\* C26: deleteTable removes a table only when no booking references it and
\* otherwise answers an error and leaves the table in place; so every table id
\* referenced by a persisted booking exists in the catalog, also when
\* deleteTable runs between the steps of a createBooking.
C26_ReferencedTablesExist ==
  /\ resp.op = "deleteTable" =>
       /\ resp.code = 200 => ~resp.referenced
       /\ resp.referenced =>
            resp.code = 400 /\ (resp.existed => TableIndex(tables, resp.id) # 0)
  /\ \A b \in bookings : b.tables \subseteq TableIds(tables)

\* The last request was getTableAvailability.
IsTableAvailability == resp.op = "getTableAvailability"

\* The booking ids listed by an entry of the data.
ListedIds(entry) == {entry.bookings[k].bookingId : k \in 1 .. Len(entry.bookings)}

\* C27: getTableAvailability(date) returns exactly one entry per active table,
\* and the bookings of an entry are exactly the bookings of the date with status
\* pending, confirmed or seated whose tables include that table, each once.
C27_EntriesListActiveBookings ==
  IsTableAvailability =>
    /\ \A i \in 1 .. Len(tables) :
         tables[i].isActive =>
           Cardinality({k \in 1 .. Len(resp.data) :
                          resp.data[k].tableId = tables[i].id}) = 1
    /\ \A k \in 1 .. Len(resp.data) :
         /\ \E i \in 1 .. Len(tables) :
              tables[i].id = resp.data[k].tableId /\ tables[i].isActive
         /\ ListedIds(resp.data[k]) =
              {b.id : b \in {x \in bookings :
                               /\ x.date = resp.date
                               /\ x.status \in {"pending", "confirmed", "seated"}
                               /\ resp.data[k].tableId \in x.tables}}
         /\ Cardinality(ListedIds(resp.data[k])) = Len(resp.data[k].bookings)

\* C27 witness: the answer has an entry that lists a booking, while a booking
\* of the date that is not active names a table of the answer.
C27_Witness ==
  /\ IsTableAvailability
  /\ \E k \in 1 .. Len(resp.data) : resp.data[k].bookings # <<>>
  /\ \E b \in bookings :
       /\ b.date = resp.date
       /\ b.status \notin ActiveStatuses
       /\ \E k \in 1 .. Len(resp.data) : resp.data[k].tableId \in b.tables

\* ------------------------------------------------- cache and calendar rules
\* The snapshot of a closed day: no free slot, one blocked slot for the whole
\* day tagged 'closed'.
IsClosedSnapshot(d) ==
  d.availableSlots = <<>> /\ d.blockedSlots = <<ClosedSlot(d.date)>>

\* checkRestaurantOpen refuses every window of the date: a closed date, or no
\* hours for the day (no special-event hours and a weekly entry missing or closed).
ClosedForEveryWindow(r, date) ==
  IsClosedDate(r, date) \/ ~DayHours(r, date).found \/ DayHours(r, date).isClosed

\* C28: a snapshot written by updateAvailabilityCache is the closed snapshot if
\* and only if checkRestaurantOpen resolves its date as closed for every window;
\* on any other date its free slots lie inside the operating window that
\* checkRestaurantOpen uses.
C28_ClosedSnapshotIffClosed ==
  \A d \in availabilities :
    /\ IsClosedSnapshot(d) <=> ClosedForEveryWindow(restaurant, d.date)
    /\ ~ClosedForEveryWindow(restaurant, d.date) =>
         \A i \in 1 .. Len(d.availableSlots) :
           /\ d.availableSlots[i].start >= OpenDateTime(d.date, DayHours(restaurant, d.date))
           /\ d.availableSlots[i].end <= CloseDateTime(d.date, DayHours(restaurant, d.date))

\* The hours the cache uses for a date that it does not treat as closed, as
\* timestamps: close lies on the next day when it is earlier than open.
GridOpen(r, date) == Ts(date, CacheHours(r, date).open)
GridClose(r, date) ==
  IF CacheHours(r, date).close < CacheHours(r, date).open
    THEN Ts(date + 1, CacheHours(r, date).close)
  ELSE Ts(date, CacheHours(r, date).close)

\* Number of whole slots between open and close.
GridCount(r, date) ==
  (GridClose(r, date) - GridOpen(r, date)) \div r.bookingRules.timeSlotDuration

\* C29: on an open date with hours (open, close) and slot duration d, the free
\* slots of every snapshot are exactly [open + k*d, open + (k+1)*d) for
\* k = 0 .. floor((close - open) / d) - 1, in this order: contiguous, each d
\* wide, none ending after close, a trailing partial slot dropped, close taken
\* on the next day when close < open.
C29_SlotGrid ==
  \A d \in availabilities :
    ~CacheClosed(restaurant, d.date) =>
      /\ Len(d.availableSlots) = GridCount(restaurant, d.date)
      /\ \A k \in 1 .. Len(d.availableSlots) :
           /\ d.availableSlots[k].start =
                GridOpen(restaurant, d.date)
                  + (k - 1) * restaurant.bookingRules.timeSlotDuration
           /\ d.availableSlots[k].end =
                d.availableSlots[k].start + restaurant.bookingRules.timeSlotDuration
           /\ d.availableSlots[k].end <= GridClose(restaurant, d.date)

\* C29 witness: slots of two ticks; a snapshot of a date whose close lies on the
\* next day holds one whole slot, and a snapshot of a date open for one tick
\* holds none (the partial slot is dropped).
C29_Witness ==
  /\ restaurant.bookingRules.timeSlotDuration = 2
  /\ \E d \in availabilities :
       /\ ~CacheClosed(restaurant, d.date)
       /\ CacheHours(restaurant, d.date).close < CacheHours(restaurant, d.date).open
       /\ Len(d.availableSlots) = 1
  /\ \E d \in availabilities :
       /\ ~CacheClosed(restaurant, d.date)
       /\ GridClose(restaurant, d.date) - GridOpen(restaurant, d.date) = 1
       /\ d.availableSlots = <<>>

\* The last request changed the calendar rules.
CalendarChanged ==
  resp.op \in {"addClosedDate", "addSpecialEvent", "updateOpeningHours"}

\* C30: after addClosedDate, addSpecialEvent or updateOpeningHours completes,
\* every stored snapshot of a date the request affects is the one a rebuild
\* under the new rules writes (a date just closed has no free slots).
C30_SnapshotsFollowCalendar ==
  CalendarChanged =>
    \A d \in availabilities :
      (d.date \in resp.dates /\ TableIndex(tables, d.tableId) # 0) =>
        d = Snapshot(restaurant, bookings, d.date, d.tableId)

\* ---------------------------------------------------- status changes, frame
\* Windows of a date: a start on the date and a duration.
WindowsOf(date) == {<<Ts(date, t), Ts(date, t) + n>> : t \in Times, n \in Durations}

\* The tables the overlap query reports as committed, per date and window, and
\* the blocked list a rebuild computes, per date and table.
CommittedView(bks) ==
  [date \in Dates |->
     [w \in WindowsOf(date) |-> BookedTableIds(OverlapQuery(bks, date, w[1], w[2]))]]
BlockedView(bks) ==
  [date \in Dates |-> [id \in TableIds(Catalog) |-> BlockedSlots(bks, date, id)]]

\* C31: an updateBookingStatus call whose new status is neither cancelled nor
\* no-show changes, for no date and window, the tables the overlap query
\* reports as committed, nor the bookings a fresh cache rebuild lists as blocked.
C31_OtherStatusesKeepOccupancy ==
  [][(/\ resp'.op = "updateBookingStatus"
      /\ resp'.code = 200
      /\ resp'.to \notin {"cancelled", "no-show"})
       => /\ CommittedView(bookings') = CommittedView(bookings)
          /\ BlockedView(bookings') = BlockedView(bookings)]_vars

\* --------------------------------------------------- decisions and the cache
\* What checkAvailability answers and what createBooking decides and would
\* persist, in the current state, for the request last received.
Decision ==
  LET a == CreateAssignment(restaurant, tables, bookings, call.partySize, call.date,
                            call.startTime, call.endTime, {}, IsStaff(call.user))
  IN <<CheckAvailabilityResponse(restaurant, tables, bookings, call.user,
                                 call.partySize, call.date, call.startTime,
                                 call.endTime),
       CreateValidation(restaurant, tables, bookings, call.partySize, call.date,
                        call.startTime, call.endTime, {}),
       a,
       BookingData(nextId, call.user, call.partySize, call.date, call.startTime,
                   call.endTime, DefaultDuration, a.tables)>>

Created == {b \in bookings : resp.op = "createBooking" /\ resp.code = 201 /\ b.id = resp.id}

\* C33: a booking persisted by createBooking starts confirmed with source
\* manual when the caller has a staff role, and pending with source online
\* otherwise; it never starts seated, completed, cancelled or no-show.
C33_InitialStatusByCaller ==
  [][(call'.fn = "createBooking" /\ resp'.code = 201)
       => /\ Created' # {}
          /\ Created' \cap bookings = {}
          /\ \A b \in Created' :
               /\ call'.user.role = "staff" => b.status = "confirmed" /\ b.source = "manual"
               /\ call'.user.role # "staff" => b.status = "pending" /\ b.source = "online"
               /\ b.status \notin {"seated", "completed", "cancelled", "no-show"}]_vars

\* C33 witness: a staff caller's createBooking has persisted a booking.
C33_Witness ==
  /\ call.fn = "createBooking"
  /\ call.user = Staff
  /\ \E b \in Created : b.status = "confirmed" /\ b.source = "manual"

\* ------------------------------------------------ requested tables, non-staff
\* Some requested table is out of service or held by an active booking that
\* overlaps the requested window.
SomeRequestedNotFree ==
  \/ resp.conflict
  \/ \E i \in 1 .. Len(tables) :
       /\ tables[i].id \in resp.tableIds
       /\ ~(tables[i].isActive /\ tables[i].isReservable)
  \/ ~(resp.tableIds \subseteq TableIds(tables))

\* C34: a non-staff createBooking that names tables is rejected as a table
\* conflict only if some requested table is not free (inactive, not
\* reservable, or held by an overlapping active booking).
C34_ConflictOnlyWhenNotFree ==
  (/\ resp.op = "createBooking"
   /\ ~resp.isStaff
   /\ resp.tableIds # {}
   /\ resp.reason = "One or more selected tables are not available")
    => SomeRequestedNotFree

\* ---------------------------------------------- capacity of the assigned tables
\* Total capacity of the catalog tables among `ids`.
SeatsOf(ids) ==
  LET RECURSIVE Sum(_)
      Sum(i) == IF i = 0 THEN 0
                ELSE Sum(i - 1) + (IF tables[i].id \in ids THEN tables[i].capacity ELSE 0)
  IN Sum(Len(tables))

\* C35: every booking persisted by createBooking has a non-empty set of
\* assigned tables whose total capacity is at least its party size, also when
\* the caller supplied tableIds.
C35_AssignedTablesSeatParty ==
  \A b \in Created : b.tables # {} /\ SeatsOf(b.tables) >= b.partySize

\* ------------------------------------------------------ people in the house
Instants == 0 .. (Ts(1, DayLen - 1) + MaxDur)

\* The guests of the active bookings whose window contains instant t.
PeopleAt(t) ==
  SumPartySize({b \in bookings : b.status \in ActiveStatuses /\ b.start <= t /\ t < b.end})

\* C36: under non-staff createBooking and customer updateBooking calls only,
\* at every instant the party sizes of the active bookings whose window
\* contains it sum to at most floor(maxCapacity * maxCapacityThreshold / 100).
C36_PeopleWithinThreshold == \A t \in Instants : PeopleAt(t) <= MaxAllowed(restaurant)

\* The same bound for venues whose bookings all lie within one calendar day.
C36_SameDayPeopleWithinThreshold ==
  (\A b \in bookings : b.end <= Ts(b.date + 1, 0)) => C36_PeopleWithinThreshold

\* ------------------------------------------------ custom capacity of an event
\* The settings with maxCapacity replaced by the customCapacity of the special
\* event of `date`, when there is one.
WithEventCapacity(r, date) ==
  LET ev == FindSpecialEvent(r, date)
  IN IF ev # 0 THEN [r EXCEPT !.maxCapacity = r.specialEvents[ev].customCapacity]
     ELSE r

\* C37: on a date whose special event declares a custom capacity, the
\* capacity guard computes maxAllowed from that custom capacity, so
\* checkAvailability answers as it would with maxCapacity set to it.
C37_GuardUsesEventCapacity ==
  (resp.op = "checkAvailability" /\ FindSpecialEvent(restaurant, call.date) # 0)
    => resp = CheckAvailabilityResponse(WithEventCapacity(restaurant, call.date),
                                        tables, bookings, call.user, call.partySize,
                                        call.date, call.startTime, call.endTime)

\* ----------------------------------- checkAvailability against createBooking
\* createBooking follows checkAvailability with the same caller and arguments.
CreateAfterCheck ==
  /\ call.fn = "checkAvailability"
  /\ call'.fn = "createBooking"
  /\ call'.user = call.user
  /\ call'.partySize = call.partySize
  /\ call'.date = call.date
  /\ call'.startTime = call.startTime
  /\ call'.endTime = call.endTime

\* The check answered available and the creation persists a booking on exactly
\* the tables of the answer.
AgreeAvailable ==
  resp.available
    => /\ resp'.code = 201
       /\ \E b \in bookings' \ bookings : b.id = resp'.id /\ b.tables = resp.tables
       /\ Cardinality(bookings') = Cardinality(bookings) + 1

OversizeWithoutTables ==
  /\ resp.reason = "No tables configured in the system"
  /\ call.partySize > restaurant.bookingRules.maxPartySize

OwnRecheckedUpdate(b) ==
  /\ ops' = ops + 1
  /\ resp'.op = "updateBooking"
  /\ call'.fn = "updateBooking"
  /\ b.id = call'.id
  /\ ~NotOwner(call'.user, b)
  /\ call'.body.date # NA \/ call'.body.time # NA \/ call'.body.hasTableIds

\* C39: when a customer re-schedules their own booking, the re-check does not
\* count the edited booking against itself: an edit that passes the re-check
\* made over the other bookings alone is accepted.
C39_RecheckIgnoresEditedBooking ==
  [][\A b \in bookings :
       (OwnRecheckedUpdate(b)
          /\ UpdateValidation(restaurant, tables, bookings \ {b}, b, call'.body).ok)
         => resp'.code = 200]_vars

====
